---- MODULE Spec2Model ----
(***************************************************************************)
(* Employee-management backend: the attendance check-in / check-out        *)
(* handlers (app/api/v1/attendance.py) over the attendance table           *)
(* (app/models/attendance.py), the attendance policy functions             *)
(* calculate_status and calculate_working_hours, the role-permission       *)
(* table (app/core/permissions.py), the authorization dependencies         *)
(* (app/api/deps.py), the blog handlers (app/api/v1/blogs.py), the         *)
(* employee administration handlers (app/api/v1/employees.py), register    *)
(* (app/api/v1/auth.py), the email service (app/services/email.py), the    *)
(* password-reset codes (app/api/v1/auth.py), the project and task         *)
(* handlers (app/api/v1/projects.py, app/api/v1/tasks.py) and the system   *)
(* settings (app/api/v1/settings.py).                                      *)
(*                                                                         *)
(* Times of day are seconds since midnight (datetime.time without the      *)
(* microsecond part); working_hours is kept in hundredths of an hour, the  *)
(* unit round(hours, 2) produces.                                          *)
(***************************************************************************)
EXTENDS Integers, Sequences, FiniteSets, TLC

VARIABLES
    attendance,   \* the attendance table: sequence of rows, id = position
    now,          \* the wall clock: [day, time]
    req,          \* the requests: req[r] is request r's handler state
    cs,           \* an evaluation of calculate_status: [t, result]
    pc_perm,      \* a call of has_permission: [pc, role, permission, result]
    role_table,   \* the module-level dict ROLE_PERMISSIONS
    perm_log,     \* the calls of has_permission / get_user_permissions made
    users,        \* the users table: set of rows
    employees,    \* the employees table: set of rows
    blogs,        \* the blogs table: set of rows
    ids,          \* the next AUTO_INCREMENT value of each table
    gate,         \* a request through require_role / require_permission
    web,          \* the last request answered by a blog or employee handler
    mail,         \* the background tasks queued, and what the last send
                  \* returned
    reset_codes,  \* the module-level dict reset_codes of auth.py
    utcnow,       \* datetime.utcnow(), in minutes
    projects,     \* the projects table: set of rows
    tasks,        \* the tasks table: set of rows
    system_settings   \* the system_settings table: set of rows

vars == <<attendance, now, req, cs, pc_perm, role_table, perm_log,
          users, employees, blogs, ids, gate, web, mail,
          reset_codes, utcnow, projects, tasks, system_settings>>

\* the state of the attendance service and of the two single evaluations
coreVars == <<attendance, now, req, cs, pc_perm>>

-----------------------------------------------------------------------------
(* Bounds of the model *)

MaxDay == 1          \* calendar days 0..MaxDay
MaxReq == 3          \* requests issued in one behaviour

Days == 0..MaxDay
Reqs == 1..MaxReq

\* The instants the wall clock is observed at (seconds since midnight):
\* 09:00, 09:46, 17:30.
Times == {32400, 35160, 63000}
FirstTime == CHOOSE t \in Times : \A u \in Times : t <= u

-----------------------------------------------------------------------------
(* Configuration: app/config.py *)

\* OFFICE_START_TIME: str = "09:30", as its characters
OFFICE_START_TIME == <<"0", "9", ":", "3", "0">>
GRACE_PERIOD_MINUTES == 15

-----------------------------------------------------------------------------
(* Data model *)

None == -1           \* Python None / SQL NULL for a Time column

\* AttendanceStatus (app/models/attendance.py)
AttendanceStatus == {"present", "late", "half_day", "absent", "leave"}

\* users 1 and 2 have an employee profile (ids 1 and 2), user 3 has none
Users == {1, 2, 3}
EmployeeOf(user) == IF user \in {1, 2} THEN user ELSE 0

\* Attendance(employee_id, date, check_in_time, status): the columns the
\* constructor call leaves out take their defaults (check_out_time NULL,
\* working_hours 0.0)
NewAttendance(id, employee_id, date, check_in_time, status) ==
    [id |-> id, employee_id |-> employee_id, date |-> date,
     check_in_time |-> check_in_time, check_out_time |-> None,
     status |-> status, working_hours |-> 0]

\* .first() finding no row: None, which the handlers test before any field
NoRow == [id |-> 0, employee_id |-> 0, date |-> 0, check_in_time |-> None,
          check_out_time |-> None, status |-> "absent", working_hours |-> 0]

\* db.query(Attendance).filter(employee_id == e, date == d).first()
QueryFirst(table, e, d) ==
    LET hits == {i \in 1..Len(table) :
                    table[i].employee_id = e /\ table[i].date = d}
    IN IF hits = {} THEN NoRow
       ELSE table[CHOOSE i \in hits : \A j \in hits : i <= j]

-----------------------------------------------------------------------------
(* Roles and the role-permission table as the module defines it *)

\* UserRole (app/models/user.py)
UserRole == {"super_admin", "admin", "project_manager", "employee",
             "content_editor"}

ROLE_PERMISSIONS ==
    [role \in UserRole |->
        CASE role = "super_admin" ->
                <<"manage_users", "manage_employees", "manage_projects",
                  "manage_tasks", "manage_blogs", "manage_settings",
                  "view_all_attendance", "manage_attendance">>
          [] role = "admin" ->
                <<"manage_employees", "manage_projects", "manage_tasks",
                  "manage_blogs", "view_all_attendance", "manage_attendance">>
          [] role = "project_manager" ->
                <<"create_projects", "manage_own_projects", "create_tasks",
                  "manage_tasks", "view_team_attendance">>
          [] role = "employee" ->
                <<"view_own_tasks", "update_own_tasks", "mark_attendance",
                  "view_own_attendance">>
          [] role = "content_editor" ->
                <<"create_blogs", "edit_own_blogs", "view_blogs">>]

-----------------------------------------------------------------------------
(* Users, employee profiles and blogs *)

NoValue == "None"    \* Python None for an Optional[str] field

\* get_password_hash (app/core/security.py)
get_password_hash(password) == "hash:" \o password

\* User(email, username, hashed_password, role, is_active)
NewUser(id, email, username, hashed_password, role, is_active) ==
    [id |-> id, email |-> email, username |-> username,
     hashed_password |-> hashed_password, role |-> role,
     is_active |-> is_active]

\* Employee(user_id, employee_code, first_name, department)
NewEmployee(id, user_id, employee_code, first_name, department) ==
    [id |-> id, user_id |-> user_id, employee_code |-> employee_code,
     first_name |-> first_name, department |-> department]

\* an email address local@domain
Email(local, domain) == [local |-> local, domain |-> domain]

\* the rows init_db() commits: five users, one of each role, and the
\* employee profiles of all but the super admin
SeedUsers ==
    {NewUser(1, Email("superadmin", "phase1.com"), "superadmin",
             get_password_hash("admin123"), "super_admin", TRUE),
     NewUser(2, Email("admin", "phase1.com"), "admin",
             get_password_hash("admin123"), "admin", TRUE),
     NewUser(3, Email("pm", "phase1.com"), "pmuser",
             get_password_hash("pm123"), "project_manager", TRUE),
     NewUser(4, Email("employee", "phase1.com"), "employee",
             get_password_hash("emp123"), "employee", TRUE),
     NewUser(5, Email("editor", "phase1.com"), "editor",
             get_password_hash("editor123"), "content_editor", TRUE)}

SeedEmployees ==
    {NewEmployee(1, 2, "EMP001", "Admin", "Management"),
     NewEmployee(2, 3, "EMP002", "Project", "Development"),
     NewEmployee(3, 4, "EMP003", "John", "Development"),
     NewEmployee(4, 5, "EMP004", "Jane", "Marketing")}

\* Project(name, code, manager_id, status)
NewProject(id, name, code, manager_id, status) ==
    [id |-> id, name |-> name, code |-> code, manager_id |-> manager_id,
     status |-> status]

\* the two sample projects of init_db(), both managed by the project
\* manager's profile
SeedProjects ==
    {NewProject(1, "Phase-1 Development", "PRJ001", 2, "active"),
     NewProject(2, "Marketing Campaign", "PRJ002", 2, "planning")}

\* SystemSettings(key, value, category); is_active is left to the column
\* default
NewSetting(id, key, value, category) ==
    [id |-> id, key |-> key, value |-> value, category |-> category]

SeedSettings ==
    {NewSetting(1, "office_start_time", "09:30", "attendance"),
     NewSetting(2, "office_end_time", "18:30", "attendance"),
     NewSetting(3, "grace_period_minutes", "15", "attendance"),
     NewSetting(4, "enable_teams_notifications", "true", "notification"),
     NewSetting(5, "enable_outlook_calendar", "true", "notification"),
     NewSetting(6, "min_working_hours", "8", "attendance"),
     NewSetting(7, "task_overdue_notification", "true", "task")}

SeedIds == [users |-> 6, employees |-> 5, blogs |-> 1, projects |-> 3,
            tasks |-> 1]

\* .first() finding no row
NoUser == NewUser(0, Email("", ""), "", "", "none", FALSE)
NoEmployee == NewEmployee(0, 0, "", "", "")

\* db.query(User).filter(User.id == id).first()
UserById(table, id) ==
    IF \E u \in table : u.id = id
    THEN CHOOSE u \in table : u.id = id
    ELSE NoUser

\* db.query(Employee).filter(Employee.id == id).first()
EmployeeById(table, id) ==
    IF \E e \in table : e.id = id
    THEN CHOOSE e \in table : e.id = id
    ELSE NoEmployee

-----------------------------------------------------------------------------
(* The state outside the attendance service, and its initial value *)

GateIdle == [pc |-> "idle", kind |-> "none", required_roles |-> <<>>,
             permission |-> "", token |-> [text |-> "", sub |-> <<>>],
             current_user |-> 0, role |-> "none", status |-> 0,
             detail |-> "", executed |-> FALSE]

\* seq alternates with every request answered; args are the request's
\* arguments and body the rows or values the response carries
NoRequest == [seq |-> 0, op |-> "none", caller |-> 0, role |-> "none",
              target |-> 0, args |-> <<>>, status |-> 0, detail |-> "",
              body |-> <<>>]

NoMail == [queue |-> <<>>, sent |-> <<>>]

tableVars == <<role_table, perm_log>>
storeVars == <<users, employees, blogs, ids>>
authVars == <<reset_codes, utcnow>>
workVars == <<projects, tasks, system_settings>>

\* reset_codes = {}
NoCodes == [email \in {} |-> [code |-> "", expires_at |-> 0]]

extVars == <<role_table, perm_log, users, employees, blogs, ids, gate, web,
             mail, reset_codes, utcnow, projects, tasks, system_settings>>

ExtInit ==
    /\ role_table = ROLE_PERMISSIONS
    /\ perm_log = <<>>
    /\ users = SeedUsers
    /\ employees = SeedEmployees
    /\ blogs = {}
    /\ ids = SeedIds
    /\ gate = GateIdle
    /\ web = NoRequest
    /\ mail = NoMail
    /\ reset_codes = NoCodes
    /\ utcnow = 0
    /\ projects = SeedProjects
    /\ tasks = {}
    /\ system_settings = SeedSettings

-----------------------------------------------------------------------------
(* Attendance policy *)

Digit(c) ==
    CASE c = "0" -> 0 [] c = "1" -> 1 [] c = "2" -> 2 [] c = "3" -> 3
      [] c = "4" -> 4 [] c = "5" -> 5 [] c = "6" -> 6 [] c = "7" -> 7
      [] c = "8" -> 8 [] c = "9" -> 9

\* datetime.strptime(s, "%H:%M").time(), as seconds since midnight
Strptime(s) ==
    (Digit(s[1]) * 10 + Digit(s[2])) * 3600 + (Digit(s[4]) * 10 + Digit(s[5])) * 60

\* calculate_status with the grace period's last instant counted as late
calculate_status_strict(check_in_time) ==
    IF check_in_time - Strptime(OFFICE_START_TIME) < GRACE_PERIOD_MINUTES * 60
    THEN "present"
    ELSE "late"

\* diff_minutes = (check_in - office_start).total_seconds() / 60 is the
\* fraction num/den; diff_minutes <= grace_minutes compares it with the grace
calculate_status(check_in_time) ==
    LET office_start == Strptime(OFFICE_START_TIME)
        grace_minutes == GRACE_PERIOD_MINUTES
        diff_minutes == [num |-> check_in_time - office_start, den |-> 60]
    IN IF diff_minutes.num <= grace_minutes * diff_minutes.den
       THEN "present"
       ELSE "late"

\* round(x, 2) of x = secs / 3600, in hundredths: the nearest hundredth; when
\* secs / 36 lies exactly halfway the binary representation of the quotient
\* decides the direction, so both neighbours are possible results
Round2(secs) ==
    IF secs % 36 = 18
    THEN {secs \div 36, secs \div 36 + 1}
    ELSE {(2 * secs + 36) \div 72}

\* calculate_working_hours cutting the hours off after two decimals
calculate_working_hours_truncated(check_in, check_out) ==
    {(check_out - check_in) \div 36}

\* the possible results of calculate_working_hours(check_in, check_out)
calculate_working_hours(check_in, check_out) ==
    Round2(check_out - check_in)

-----------------------------------------------------------------------------
(* Requests *)

Idle == [pc |-> "idle", op |-> "none", user |-> 0, employee_id |-> 0,
         today |-> 0, row |-> NoRow, outcome |-> "none"]

Finish(r, op, user, outcome) ==
    req' = [req EXCEPT ![r] = [pc |-> "done", op |-> op, user |-> user,
                               employee_id |-> EmployeeOf(user),
                               today |-> now.day, row |-> NoRow,
                               outcome |-> outcome]]

\* requests are issued in the order of their numbers
CanStart(r) == req[r].pc = "idle" /\ \A q \in Reqs : q < r => req[q].pc # "idle"

-----------------------------------------------------------------------------
(* check_in *)

\* the guard of check_in testing the check-out time instead
HasCheckIn_ChecksCheckOut(existing) ==
    existing.id # 0 /\ existing.check_out_time # None

\* line 69: existing and existing.check_in_time
HasCheckIn(existing) ==
    existing.id # 0 /\ existing.check_in_time # None

\* lines 75-91: the table after check_in's commit
CheckInWrite(table, existing, employee_id, today, check_in_time, status) ==
    IF existing.id # 0
    THEN [table EXCEPT ![existing.id].check_in_time = check_in_time,
                       ![existing.id].status = status]
    ELSE Append(table,
                NewAttendance(Len(table) + 1, employee_id, today,
                              check_in_time, status))

\* lines 58-70: the employee lookup, today's date, the query and the guard
CheckInRead(r, user) ==
    /\ CanStart(r)
    /\ LET employee_id == EmployeeOf(user)
           today == now.day
           existing == QueryFirst(attendance, employee_id, today)
       IN IF employee_id = 0
          THEN Finish(r, "check_in", user, "EmployeeNotFound")
          ELSE IF HasCheckIn(existing)
          THEN Finish(r, "check_in", user, "AlreadyCheckedIn")
          ELSE req' = [req EXCEPT ![r] =
                         [pc |-> "commit", op |-> "check_in", user |-> user,
                          employee_id |-> employee_id, today |-> today,
                          row |-> existing, outcome |-> "none"]]
    /\ UNCHANGED <<attendance, now, cs, pc_perm>>
    /\ UNCHANGED extVars

\* lines 72-91: the time of the check-in, its status, the write and the commit
CheckInCommit(r) ==
    /\ req[r].pc = "commit"
    /\ req[r].op = "check_in"
    /\ LET check_in_time == now.time
           status == calculate_status(check_in_time)
       IN attendance' = CheckInWrite(attendance, req[r].row, req[r].employee_id,
                                     req[r].today, check_in_time, status)
    /\ req' = [req EXCEPT ![r].pc = "done", ![r].row = NoRow, ![r].outcome = "ok"]
    /\ UNCHANGED <<now, cs, pc_perm>>
    /\ UNCHANGED extVars

-----------------------------------------------------------------------------
(* check_out *)

\* the guard of check_out rejecting only a row without a check-in time
NotCheckedIn_RowRequired(row) ==
    row.id # 0 /\ row.check_in_time = None

\* line 109: not attendance or not attendance.check_in_time
NotCheckedIn(row) ==
    row.id = 0 \/ row.check_in_time = None

\* line 112: attendance.check_out_time
HasCheckOut(row) ==
    row.check_out_time # None

\* check_out deriving the status again from the check-out time
CheckOutWrite_RecomputesStatus(table, row, check_out_time, working_hours) ==
    [table EXCEPT ![row.id].check_out_time = check_out_time,
                  ![row.id].working_hours = working_hours,
                  ![row.id].status = calculate_status(check_out_time)]

\* lines 116-122: the columns check_out assigns, written to the row it read
CheckOutWrite(table, row, check_out_time, working_hours) ==
    [table EXCEPT ![row.id].check_out_time = check_out_time,
                  ![row.id].working_hours = working_hours]

\* lines 99-113: the employee lookup, today's date, the query and the guards
CheckOutRead(r, user) ==
    /\ CanStart(r)
    /\ LET employee_id == EmployeeOf(user)
           today == now.day
           row == QueryFirst(attendance, employee_id, today)
       IN IF employee_id = 0
          THEN Finish(r, "check_out", user, "EmployeeNotFound")
          ELSE IF NotCheckedIn(row)
          THEN Finish(r, "check_out", user, "NotCheckedIn")
          ELSE IF HasCheckOut(row)
          THEN Finish(r, "check_out", user, "AlreadyCheckedOut")
          ELSE req' = [req EXCEPT ![r] =
                         [pc |-> "commit", op |-> "check_out", user |-> user,
                          employee_id |-> employee_id, today |-> today,
                          row |-> row, outcome |-> "none"]]
    /\ UNCHANGED <<attendance, now, cs, pc_perm>>
    /\ UNCHANGED extVars

\* lines 115-124: the time of the check-out, the working hours computed from
\* the check-in time the request read, the write and the commit
CheckOutCommit(r) ==
    /\ req[r].pc = "commit"
    /\ req[r].op = "check_out"
    /\ LET check_out_time == now.time
       IN \E working_hours \in
                calculate_working_hours(req[r].row.check_in_time, check_out_time) :
            attendance' = CheckOutWrite(attendance, req[r].row, check_out_time,
                                        working_hours)
    /\ req' = [req EXCEPT ![r].pc = "done", ![r].row = NoRow, ![r].outcome = "ok"]
    /\ UNCHANGED <<now, cs, pc_perm>>
    /\ UNCHANGED extVars

-----------------------------------------------------------------------------
(* The wall clock: date.today() and datetime.now() *)

\* The clock is read only by the handlers, so it is advanced only while a
\* request can still read it.
Tick ==
    /\ \E r \in Reqs : req[r].pc # "done"
    /\ \E t \in Times :
          \/ t > now.time /\ now' = [now EXCEPT !.time = t]
          \/ now.day < MaxDay /\ now' = [day |-> now.day + 1, time |-> t]
    /\ UNCHANGED <<attendance, req, cs, pc_perm>>
    /\ UNCHANGED extVars

-----------------------------------------------------------------------------
(* The attendance service *)

NoEval == [t |-> 0, result |-> "none"]
NoPerm == [pc |-> "call", role |-> "none", permission |-> "none",
           result |-> FALSE]

Init ==
    /\ attendance = <<>>
    /\ now = [day |-> 0, time |-> FirstTime]
    /\ req = [r \in Reqs |-> Idle]
    /\ cs = NoEval
    /\ pc_perm = NoPerm
    /\ ExtInit

Next ==
    \/ \E r \in Reqs, user \in Users : CheckInRead(r, user)
    \/ \E r \in Reqs : CheckInCommit(r)
    \/ \E r \in Reqs, user \in Users : CheckOutRead(r, user)
    \/ \E r \in Reqs : CheckOutCommit(r)
    \/ Tick

Spec == Init /\ [][Next]_vars

-----------------------------------------------------------------------------
(* calculate_status as a function of the check-in time *)

\* every time of day, to the second
TimesOfDay == 0..86399

EvalStatus ==
    /\ cs.result = "none"
    /\ cs' = [cs EXCEPT !.result = calculate_status(cs.t)]
    /\ UNCHANGED <<attendance, now, req, pc_perm>>
    /\ UNCHANGED extVars

InitStatus ==
    /\ attendance = <<>>
    /\ now = [day |-> 0, time |-> FirstTime]
    /\ req = [r \in Reqs |-> Idle]
    /\ cs \in [t : TimesOfDay, result : {"none"}]
    /\ pc_perm = NoPerm
    /\ ExtInit

NextStatus == EvalStatus

SpecStatus == InitStatus /\ [][NextStatus]_vars

-----------------------------------------------------------------------------
(* The role-permission table: app/core/permissions.py *)

\* dict.get(key, default)
DictGet(d, key, default) == IF key \in DOMAIN d THEN d[key] ELSE default

\* x in lst, for a list
InList(x, lst) == \E i \in 1..Len(lst) : lst[i] = x

\* has_permission letting super_admin inherit every other role's entry
has_permission_inherited(user_role, permission) ==
    \/ InList(permission, DictGet(ROLE_PERMISSIONS, user_role, <<>>))
    \/ /\ user_role = "super_admin"
       /\ \E role \in UserRole : InList(permission, ROLE_PERMISSIONS[role])

has_permission(user_role, permission) ==
    InList(permission, DictGet(role_table, user_role, <<>>))

\* get_user_permissions falling back to the employee entry
get_user_permissions_default_employee(user_role) ==
    DictGet(role_table, user_role, role_table["employee"])

get_user_permissions(user_role) ==
    DictGet(role_table, user_role, <<>>)

\* dict.get with a key the dict lacks inserting the default, as setdefault does
DictAfterGet_setdefault(d, key, default) ==
    IF key \in DOMAIN d THEN d
    ELSE [k \in DOMAIN d \cup {key} |-> IF k = key THEN default ELSE d[k]]

\* the dict after dict.get(key, default): get never inserts
DictAfterGet(d, key, default) == d

\* the role values a caller can pass: the five roles and a value with no
\* entry in the table
RoleValues == UserRole \cup {"auditor"}

\* the permission strings a caller can pass: every string of the table and
\* two strings that are in no entry
PermissionValues ==
    UNION {{ROLE_PERMISSIONS[role][i] : i \in 1..Len(ROLE_PERMISSIONS[role])} :
             role \in UserRole}
    \cup {"delete_database", ""}

EvalPermission ==
    /\ pc_perm.pc = "call"
    /\ pc_perm' = [pc_perm EXCEPT
                     !.pc = "returned",
                     !.result = has_permission(pc_perm.role, pc_perm.permission)]
    /\ UNCHANGED <<attendance, now, req, cs>>
    /\ UNCHANGED extVars

InitPerm ==
    /\ attendance = <<>>
    /\ now = [day |-> 0, time |-> FirstTime]
    /\ req = [r \in Reqs |-> Idle]
    /\ cs = NoEval
    /\ pc_perm \in [pc : {"call"}, role : RoleValues,
                    permission : PermissionValues, result : {FALSE}]
    /\ ExtInit

NextPerm == EvalPermission

SpecPerm == InitPerm /\ [][NextPerm]_vars

-----------------------------------------------------------------------------
(* Repeated calls of the two functions of app/core/permissions.py *)

MaxCalls == 2        \* calls made in one behaviour

CallHasPermission(user_role, permission) ==
    /\ Len(perm_log) < MaxCalls
    /\ perm_log' = Append(perm_log,
                          [fn |-> "has_permission", role |-> user_role,
                           permission |-> permission,
                           allowed |-> has_permission(user_role, permission),
                           permissions |-> <<>>])
    /\ role_table' = DictAfterGet(role_table, user_role, <<>>)
    /\ UNCHANGED <<coreVars, authVars, workVars, storeVars, gate, web, mail>>

CallGetUserPermissions(user_role) ==
    /\ Len(perm_log) < MaxCalls
    /\ perm_log' = Append(perm_log,
                          [fn |-> "get_user_permissions", role |-> user_role,
                           permission |-> "",
                           allowed |-> FALSE,
                           permissions |-> get_user_permissions(user_role)])
    /\ role_table' = DictAfterGet(role_table, user_role, <<>>)
    /\ UNCHANGED <<coreVars, authVars, workVars, storeVars, gate, web, mail>>

InitTable ==
    /\ attendance = <<>>
    /\ now = [day |-> 0, time |-> FirstTime]
    /\ req = [r \in Reqs |-> Idle]
    /\ cs = NoEval
    /\ pc_perm = NoPerm
    /\ ExtInit

NextTable ==
    \/ \E user_role \in RoleValues, permission \in PermissionValues :
            CallHasPermission(user_role, permission)
    \/ \E user_role \in RoleValues : CallGetUserPermissions(user_role)

SpecTable == InitTable /\ [][NextTable]_vars

-----------------------------------------------------------------------------
(* Authorization dependencies: app/api/deps.py *)

\* the elements of a Python list
Elems(lst) == {lst[i] : i \in 1..Len(lst)}

\* int(s): the value of a string of decimal digits, ValueError (-1 here) for
\* a string with another character or none
IntOf(s) ==
    IF s = <<>> \/ \E i \in 1..Len(s) : s[i] \notin {"0", "1", "2", "3", "4",
                                                    "5", "6", "7", "8", "9"}
    THEN -1
    ELSE LET F[i \in 0..Len(s)] ==
                 IF i = 0 THEN 0 ELSE F[i - 1] * 10 + Digit(s[i])
         IN F[Len(s)]

\* the payload's "sub" entry when the payload has none
NoSub == <<"N", "o", "n", "e">>

\* the bearer tokens a request can carry: none, one that does not verify,
\* and verified ones whose payload has no sub, a sub that is not a number,
\* the id of no user, or the id of a user
Tokens ==
    {[text |-> "", sub |-> NoSub], [text |-> "garbage", sub |-> NoSub],
     [text |-> "jwt", sub |-> NoSub]}
    \cup {[text |-> "jwt", sub |-> s] :
             s \in {<<"a", "b", "c">>, <<"9">>, <<"1">>, <<"2">>, <<"3">>,
                    <<"4">>, <<"5">>, <<"1", "2">>}}

\* decode_access_token (app/core/security.py): the payload of a token that
\* verifies, None for any other
NoPayload == [decoded |-> FALSE, sub |-> NoSub]
decode_access_token(token) ==
    IF token.text = "jwt" THEN [decoded |-> TRUE, sub |-> token.sub]
    ELSE NoPayload

\* get_current_user returning a user whose is_active is false
get_current_user_inactive_passes(table, token) ==
    LET credentials_exception ==
            [status |-> 401, detail |-> "Could not validate credentials",
             user |-> NoUser]
        payload == decode_access_token(token)
        user_id == IntOf(payload.sub)
        user == UserById(table, user_id)
    IN IF token.text = "" THEN credentials_exception
       ELSE IF ~payload.decoded THEN credentials_exception
       ELSE IF payload.sub = NoSub THEN credentials_exception
       ELSE IF user_id = -1 THEN credentials_exception
       ELSE IF user = NoUser THEN credentials_exception
       ELSE [status |-> 200, detail |-> "", user |-> user]

\* get_current_user: the user the token names, or the HTTPException raised
get_current_user(table, token) ==
    LET credentials_exception ==
            [status |-> 401, detail |-> "Could not validate credentials",
             user |-> NoUser]
        payload == decode_access_token(token)
        user_id == IntOf(payload.sub)
        user == UserById(table, user_id)
    IN IF token.text = "" THEN credentials_exception
       ELSE IF ~payload.decoded THEN credentials_exception
       ELSE IF payload.sub = NoSub THEN credentials_exception
       ELSE IF user_id = -1 THEN credentials_exception
       ELSE IF user = NoUser THEN credentials_exception
       ELSE IF ~user.is_active
            THEN [status |-> 400, detail |-> "Inactive user", user |-> NoUser]
       ELSE [status |-> 200, detail |-> "", user |-> user]

\* role_checker letting the super admin through whatever the list says
role_checker_super_admin_passes(role, required_roles) ==
    role = "super_admin" \/ InList(role, required_roles)

\* role_checker of require_role(required_roles): TRUE when it returns the
\* user, FALSE when it raises 403
role_checker(role, required_roles) ==
    InList(role, required_roles)

\* permission_checker letting every role that has a table entry through
permission_checker_any_entry(role, permission) ==
    DictGet(role_table, role, <<>>) # <<>>

\* permission_checker of require_permission(permission): TRUE when it
\* returns the user, FALSE when it raises 403
permission_checker(role, permission) ==
    has_permission(role, permission)

\* the allow-lists a route can be declared with: every set of roles, in the
\* enum's order, and one naming a role twice
RoleOrder == <<"super_admin", "admin", "project_manager", "employee",
               "content_editor">>

ListOf(S) ==
    LET F[i \in 0..Len(RoleOrder)] ==
            IF i = 0 THEN <<>>
            ELSE IF RoleOrder[i] \in S THEN Append(F[i - 1], RoleOrder[i])
                 ELSE F[i - 1]
    IN F[Len(RoleOrder)]

RoleLists == {ListOf(S) : S \in SUBSET UserRole} \cup {<<"admin", "admin">>}

GateDone(status, detail) ==
    gate' = [gate EXCEPT !.pc = "done", !.status = status, !.detail = detail]

\* a request arrives at a route declared with Depends(require_role(L))
RequestRoleRoute(required_roles, token) ==
    /\ gate.pc \in {"idle", "done"}
    /\ gate' = [GateIdle EXCEPT !.pc = "auth", !.kind = "require_role",
                                !.required_roles = required_roles,
                                !.token = token]
    /\ UNCHANGED <<coreVars, authVars, workVars, tableVars, storeVars, web, mail>>

\* a request arrives at a route declared with Depends(require_permission(P))
RequestPermissionRoute(permission, token) ==
    /\ gate.pc \in {"idle", "done"}
    /\ gate' = [GateIdle EXCEPT !.pc = "auth", !.kind = "require_permission",
                                !.permission = permission, !.token = token]
    /\ UNCHANGED <<coreVars, authVars, workVars, tableVars, storeVars, web, mail>>

\* Depends(get_current_user) is resolved
GetCurrentUser ==
    /\ gate.pc = "auth"
    /\ LET r == get_current_user(users, gate.token)
       IN IF r.status # 200 THEN GateDone(r.status, r.detail)
          ELSE gate' = [gate EXCEPT !.pc = "check",
                                    !.current_user = r.user.id,
                                    !.role = r.user.role]
    /\ UNCHANGED <<coreVars, authVars, workVars, tableVars, storeVars, web, mail>>

RoleChecker ==
    /\ gate.pc = "check"
    /\ gate.kind = "require_role"
    /\ IF ~role_checker(gate.role, gate.required_roles)
       THEN GateDone(403, "Not enough permissions")
       ELSE gate' = [gate EXCEPT !.pc = "endpoint"]
    /\ UNCHANGED <<coreVars, authVars, workVars, tableVars, storeVars, web, mail>>

PermissionChecker ==
    /\ gate.pc = "check"
    /\ gate.kind = "require_permission"
    /\ IF ~permission_checker(gate.role, gate.permission)
       THEN GateDone(403, "Permission denied: " \o gate.permission)
       ELSE gate' = [gate EXCEPT !.pc = "endpoint"]
    /\ UNCHANGED <<coreVars, authVars, workVars, tableVars, storeVars, web, mail>>

\* the route's own function runs with the user the dependency returned
Endpoint ==
    /\ gate.pc = "endpoint"
    /\ gate' = [gate EXCEPT !.pc = "done", !.status = 200,
                            !.executed = TRUE]
    /\ UNCHANGED <<coreVars, authVars, workVars, tableVars, storeVars, web, mail>>

InitGate ==
    /\ attendance = <<>>
    /\ now = [day |-> 0, time |-> FirstTime]
    /\ req = [r \in Reqs |-> Idle]
    /\ cs = NoEval
    /\ pc_perm = NoPerm
    /\ ExtInit

NextGate ==
    \/ \E required_roles \in RoleLists, token \in Tokens :
            RequestRoleRoute(required_roles, token)
    \/ \E permission \in PermissionValues, token \in Tokens :
            RequestPermissionRoute(permission, token)
    \/ GetCurrentUser
    \/ RoleChecker
    \/ PermissionChecker
    \/ Endpoint

SpecGate == InitGate /\ [][NextGate]_vars

-----------------------------------------------------------------------------
(* Blogs: app/api/v1/blogs.py *)

\* Blog(title, slug, content, author_id, status); published_at is None,
\* <<>> here, until update_blog_status sets it
NewBlog(id, title, slug, content, author_id, status) ==
    [id |-> id, title |-> title, slug |-> slug, content |-> content,
     author_id |-> author_id, status |-> status, published_at |-> <<>>]

NoBlog == NewBlog(0, "", "", "", 0, "none")

\* db.query(Blog).filter(Blog.id == blog_id).first()
BlogById(table, blog_id) ==
    IF \E b \in table : b.id = blog_id
    THEN CHOOSE b \in table : b.id = blog_id
    ELSE NoBlog

Slugs == {"hello", "news"}
Titles == {"Hello", "News"}
Contents == {"text"}
BlogIds == 1..Cardinality(Slugs)

\* the response of a handler: the request with its status, detail and body
Respond(op, current_user, target, args, status, detail, body) ==
    [seq |-> 1 - web.seq, op |-> op, caller |-> current_user.id,
     role |-> current_user.role, target |-> target, args |-> args,
     status |-> status, detail |-> detail, body |-> body]

\* the "Check permissions" test of update_blog letting a content editor
\* edit any blog
update_blog_forbidden_never(role, author_id, user_id) ==
    FALSE

\* the "Check permissions" test of update_blog: TRUE when it raises 403
update_blog_forbidden(role, author_id, user_id) ==
    role = "content_editor" /\ author_id # user_id

\* the assignments of update_blog: a field the request leaves None keeps
\* its value
PatchBlog(blog, blog_data) ==
    [blog EXCEPT
        !.title = IF blog_data.title # NoValue THEN blog_data.title ELSE @,
        !.content = IF blog_data.content # NoValue THEN blog_data.content
                    ELSE @]

create_blog(user_id, slug, title, content) ==
    LET current_user == UserById(users, user_id)
        args == [slug |-> slug, title |-> title, content |-> content]
        blog == NewBlog(ids.blogs, title, slug, content, current_user.id,
                        "draft")
    IN /\ current_user # NoUser
       /\ IF current_user.role \notin {"super_admin", "admin", "content_editor"}
          THEN /\ web' = Respond("create_blog", current_user, 0, args, 403,
                                 "Not authorized", {})
               /\ UNCHANGED <<blogs, ids>>
          ELSE IF \E b \in blogs : b.slug = slug
          THEN /\ web' = Respond("create_blog", current_user, 0, args, 400,
                                 "Slug already exists", {})
               /\ UNCHANGED <<blogs, ids>>
          ELSE /\ blogs' = blogs \cup {blog}
               /\ ids' = [ids EXCEPT !.blogs = @ + 1]
               /\ web' = Respond("create_blog", current_user, blog.id, args,
                                 200, "", {blog})
       /\ UNCHANGED <<coreVars, authVars, workVars, tableVars, users, employees, gate, mail>>

update_blog(user_id, blog_id, blog_data) ==
    LET current_user == UserById(users, user_id)
        blog == BlogById(blogs, blog_id)
        updated == PatchBlog(blog, blog_data)
    IN /\ current_user # NoUser
       /\ IF blog = NoBlog
          THEN /\ web' = Respond("update_blog", current_user, blog_id,
                                 blog_data, 404, "Blog not found", {})
               /\ UNCHANGED blogs
          ELSE IF update_blog_forbidden(current_user.role, blog.author_id,
                                        current_user.id)
          THEN /\ web' = Respond("update_blog", current_user, blog_id,
                                 blog_data, 403, "Not authorized", {})
               /\ UNCHANGED blogs
          ELSE /\ blogs' = (blogs \ {blog}) \cup {updated}
               /\ web' = Respond("update_blog", current_user, blog_id,
                                 blog_data, 200, "", {updated})
       /\ UNCHANGED <<coreVars, authVars, workVars, tableVars, users, employees, ids, gate, mail>>

InitBlog ==
    /\ attendance = <<>>
    /\ now = [day |-> 0, time |-> FirstTime]
    /\ req = [r \in Reqs |-> Idle]
    /\ cs = NoEval
    /\ pc_perm = NoPerm
    /\ ExtInit

NextBlog ==
    \/ \E u \in users, slug \in Slugs, title \in Titles, content \in Contents :
            create_blog(u.id, slug, title, content)
    \/ \E u \in users, blog_id \in BlogIds,
          title \in Titles \cup {NoValue}, content \in Contents \cup {NoValue} :
            update_blog(u.id, blog_id, [title |-> title, content |-> content])

SpecBlog == InitBlog /\ [][NextBlog]_vars

-----------------------------------------------------------------------------
(* Employee administration: app/api/v1/employees.py, and register of       *)
(* app/api/v1/auth.py                                                      *)

MaxNewUsers == 2     \* user ids handed out after the seeded ones
MaxQueue == 1        \* background tasks waiting to run

NoEmail == Email(NoValue, NoValue)   \* Optional[EmailStr] left None

\* the role test every administration handler starts with, letting a
\* project manager in as well
NotAuthorized_project_manager_allowed(role) ==
    role \notin {"super_admin", "admin", "project_manager"}

\* current_user.role not in [UserRole.SUPER_ADMIN, UserRole.ADMIN]
NotAuthorized(role) ==
    role \notin {"super_admin", "admin"}

\* the unique indexes of users (email, username) and of employees
\* (employee_code, user_id): TRUE when inserting the row raises
\* IntegrityError
UserIntegrityError(table, user) ==
    \E u \in table : u.email = user.email \/ u.username = user.username

EmployeeIntegrityError(table, employee) ==
    \E e \in table : \/ e.employee_code = employee.employee_code
                     \/ e.user_id = employee.user_id

\* db.add(user); db.flush() committing the row at once
AddAndFlush_commits(committed, row) ==
    [committed |-> committed \cup {row}, pending |-> {}]

\* db.add(row); db.flush(): the INSERT is sent inside the transaction, the
\* row is pending until the commit
AddAndFlush(committed, row) ==
    [committed |-> committed, pending |-> {row}]

\* db.commit(): the pending rows become committed
Commit(session) == session.committed \cup session.pending

\* get_db (app/database.py) closing the session of a request that raised:
\* the transaction is rolled back, the pending rows are gone
Rollback(session) == session.committed

\* employee_data.email.split('@')[0]
LocalPart(email) == email.local

\* the username create_employee gives the new account
DeriveUsername(table, email, employee_code) ==
    LET username == LocalPart(email)
    IN IF \E u \in table : u.username = username
       THEN username \o "_" \o employee_code
       ELSE username

\* background_tasks.add_task(...)
AddTask(kind, email, username, password) ==
    [mail EXCEPT !.queue = Append(@, [kind |-> kind, email |-> email,
                                      username |-> username,
                                      password |-> password])]

ServerError == "Internal Server Error"

get_employees(user_id, department) ==
    LET current_user == UserById(users, user_id)
        args == [department |-> department]
    IN /\ current_user # NoUser
       /\ IF NotAuthorized(current_user.role)
          THEN web' = Respond("get_employees", current_user, 0, args, 403,
                              "Not authorized", {})
          ELSE web' = Respond("get_employees", current_user, 0, args, 200, "",
                              {e \in employees :
                                  department # NoValue
                                      => e.department = department})
       /\ UNCHANGED <<coreVars, authVars, workVars, tableVars, storeVars, gate, mail>>

create_employee(user_id, employee_data, temp_password, fault) ==
    LET current_user == UserById(users, user_id)
        args == [employee_code |-> employee_data.employee_code,
                 email |-> employee_data.email, fault |-> fault]
        username == DeriveUsername(users, employee_data.email,
                                   employee_data.employee_code)
        user == NewUser(ids.users, employee_data.email, username,
                        get_password_hash(temp_password), employee_data.role,
                        TRUE)
        employee == NewEmployee(ids.employees, user.id,
                                employee_data.employee_code,
                                employee_data.first_name,
                                employee_data.department)
        flushed == AddAndFlush(users, user)
        Refuse(status, detail) ==
            /\ web' = Respond("create_employee", current_user, 0, args,
                              status, detail, {})
            /\ UNCHANGED <<users, employees, ids, mail>>
    IN /\ current_user # NoUser
       /\ ids.users < SeedIds.users + MaxNewUsers
       /\ Len(mail.queue) < MaxQueue
       /\ IF NotAuthorized(current_user.role)
          THEN Refuse(403, "Not authorized")
          ELSE IF \E e \in employees :
                     e.employee_code = employee_data.employee_code
          THEN Refuse(400, "Employee code already exists")
          ELSE IF \E u \in users : u.email = employee_data.email
          THEN Refuse(400, "Email already registered")
          ELSE IF fault = "flush" \/ UserIntegrityError(users, user)
          THEN /\ ids' = [ids EXCEPT !.users = @ + 1]
               /\ web' = Respond("create_employee", current_user, 0, args,
                                 500, ServerError, {})
               /\ UNCHANGED <<users, employees, mail>>
          ELSE IF \/ fault = "commit"
                  \/ EmployeeIntegrityError(employees, employee)
          THEN /\ users' = Rollback(flushed)
               /\ ids' = [ids EXCEPT !.users = @ + 1, !.employees = @ + 1]
               /\ web' = Respond("create_employee", current_user, 0, args,
                                 500, ServerError, {})
               /\ UNCHANGED <<employees, mail>>
          ELSE /\ users' = Commit(flushed)
               /\ employees' = employees \cup {employee}
               /\ ids' = [ids EXCEPT !.users = @ + 1, !.employees = @ + 1]
               /\ IF fault = "refresh"
                  THEN /\ web' = Respond("create_employee", current_user,
                                         employee.id, args, 500, ServerError,
                                         {})
                       /\ UNCHANGED mail
                  ELSE /\ mail' = AddTask("welcome", user.email, username,
                                          temp_password)
                       /\ web' = Respond("create_employee", current_user,
                                         employee.id, args, 200, "",
                                         {[user_id |-> user.id,
                                           username |-> username,
                                           temp_password |-> temp_password]})
       /\ UNCHANGED <<coreVars, authVars, workVars, tableVars, blogs, gate>>

update_employee(user_id, employee_id, employee_data) ==
    LET current_user == UserById(users, user_id)
        employee == EmployeeById(employees, employee_id)
        user == UserById(users, employee.user_id)
        updated == IF employee_data.first_name # NoValue
                   THEN [employee EXCEPT !.first_name = employee_data.first_name]
                   ELSE employee
        Refuse(status, detail) ==
            /\ web' = Respond("update_employee", current_user, employee_id,
                              employee_data, status, detail, {})
            /\ UNCHANGED <<users, employees>>
    IN /\ current_user # NoUser
       /\ IF NotAuthorized(current_user.role)
          THEN Refuse(403, "Not authorized")
          ELSE IF employee = NoEmployee
          THEN Refuse(404, "Employee not found")
          ELSE IF /\ employee_data.email # NoEmail
                  /\ \E u \in users : /\ u.email = employee_data.email
                                      /\ u.id # user.id
          THEN Refuse(400, "Email already in use")
          ELSE /\ employees' = (employees \ {employee}) \cup {updated}
               /\ users' = IF employee_data.email # NoEmail
                           THEN (users \ {user})
                                \cup {[user EXCEPT !.email = employee_data.email]}
                           ELSE users
               /\ web' = Respond("update_employee", current_user, employee_id,
                                 employee_data, 200, "", {updated})
       /\ UNCHANGED <<coreVars, authVars, workVars, tableVars, blogs, ids, gate, mail>>

reset_employee_password(user_id, employee_id, new_password) ==
    LET current_user == UserById(users, user_id)
        employee == EmployeeById(employees, employee_id)
        user == UserById(users, employee.user_id)
        args == [employee_id |-> employee_id]
        Refuse(status, detail) ==
            /\ web' = Respond("reset_employee_password", current_user,
                              employee_id, args, status, detail, {})
            /\ UNCHANGED <<users, mail>>
    IN /\ current_user # NoUser
       /\ Len(mail.queue) < MaxQueue
       /\ IF NotAuthorized(current_user.role)
          THEN Refuse(403, "Not authorized")
          ELSE IF employee = NoEmployee
          THEN Refuse(404, "Employee not found")
          ELSE IF user = NoUser
          THEN Refuse(404, "User not found")
          ELSE /\ users' = (users \ {user})
                     \cup {[user EXCEPT !.hashed_password =
                                            get_password_hash(new_password)]}
               /\ mail' = AddTask("password_reset", user.email, user.username,
                                  new_password)
               /\ web' = Respond("reset_employee_password", current_user,
                                 employee_id, args, 200,
                                 "Password reset successfully",
                                 {[user_id |-> user.id,
                                   username |-> user.username,
                                   temp_password |-> new_password]})
       /\ UNCHANGED <<coreVars, authVars, workVars, tableVars, employees, blogs, ids, gate>>

delete_employee(user_id, employee_id) ==
    LET current_user == UserById(users, user_id)
        employee == EmployeeById(employees, employee_id)
        args == [employee_id |-> employee_id]
        Refuse(status, detail) ==
            /\ web' = Respond("delete_employee", current_user, employee_id,
                              args, status, detail, {})
            /\ UNCHANGED <<users, employees>>
    IN /\ current_user # NoUser
       /\ IF NotAuthorized(current_user.role)
          THEN Refuse(403, "Not authorized")
          ELSE IF employee = NoEmployee
          THEN Refuse(404, "Employee not found")
          ELSE IF employee.user_id = current_user.id
          THEN Refuse(400, "Cannot delete your own account")
          ELSE /\ employees' = employees \ {employee}
               /\ users' = {u \in users : u.id # employee.user_id}
               /\ web' = Respond("delete_employee", current_user, employee_id,
                                 args, 200,
                                 "Employee and user account deleted successfully",
                                 {})
       /\ UNCHANGED <<coreVars, authVars, workVars, tableVars, blogs, ids, gate, mail>>

\* register has no current user: the caller is anonymous
Anonymous == NoUser

register(user_data) ==
    LET user == NewUser(ids.users, user_data.email, user_data.username,
                        get_password_hash(user_data.password), user_data.role,
                        TRUE)
        Refuse(status, detail) ==
            /\ web' = Respond("register", Anonymous, 0, user_data, status,
                              detail, {})
            /\ UNCHANGED <<users, ids>>
    IN /\ ids.users < SeedIds.users + MaxNewUsers
       /\ IF \E u \in users : u.email = user_data.email
          THEN Refuse(400, "Email already registered")
          ELSE IF \E u \in users : u.username = user_data.username
          THEN Refuse(400, "Username already taken")
          ELSE /\ users' = users \cup {user}
               /\ ids' = [ids EXCEPT !.users = @ + 1]
               /\ web' = Respond("register", Anonymous, user.id, user_data,
                                 200, "", {user})
       /\ UNCHANGED <<coreVars, authVars, workVars, tableVars, employees, blogs, gate, mail>>

-----------------------------------------------------------------------------
(* The email service: app/services/email.py *)

\* send_email letting the exception of a failed send propagate
send_email_raises(smtp_ok) ==
    IF smtp_ok THEN "True" ELSE "raised"

\* send_email: the whole body is inside try, any exception is printed and
\* turned into the return value False
send_email(smtp_ok) ==
    IF smtp_ok THEN "True" ELSE "False"

\* send_welcome_email and send_password_reset_email return what send_email
\* returns
send_welcome_email(smtp_ok) == send_email(smtp_ok)
send_password_reset_email(smtp_ok) == send_email(smtp_ok)

\* the response has been sent; the oldest queued background task runs
RunBackgroundTask(smtp_ok) ==
    /\ mail.queue # <<>>
    /\ LET task == Head(mail.queue)
           result == IF task.kind = "welcome"
                     THEN send_welcome_email(smtp_ok)
                     ELSE send_password_reset_email(smtp_ok)
       IN mail' = [queue |-> Tail(mail.queue), sent |-> <<result>>]
    /\ UNCHANGED <<coreVars, authVars, workVars, tableVars, storeVars, gate, web>>

-----------------------------------------------------------------------------
(* The requests the administration handlers are driven with *)

Codes == {"EMP003", "E9"}
Passwords == {"Tmp#1"}

\* one address whose local part is a seeded username, one that is seeded
EmployeeCreates ==
    {[employee_code |-> c, first_name |-> "Zed", email |-> e,
      department |-> "Development", role |-> "employee"] :
        c \in Codes, e \in {Email("admin", "x.org"),
                            Email("employee", "phase1.com")}}

UserCreates ==
    {[email |-> e, username |-> n, password |-> "pw", role |-> "employee"] :
        e \in {Email("zed", "x.org"), Email("employee", "phase1.com")},
        n \in {"admin_E9", "employee"}}

EmployeeUpdates ==
    {[first_name |-> f, email |-> e] :
        f \in {NoValue, "Zed"}, e \in {NoEmail, Email("zed", "x.org")}}

\* the failure the database answers a statement of create_employee with
Faults == {"none", "flush", "commit", "refresh"}

\* John Doe's profile, the one update, reset and delete are aimed at
EmployeeIds == {3}

\* the admin's own profile, which delete_employee is aimed at as well
OwnProfile == 1

InitAdmin ==
    /\ attendance = <<>>
    /\ now = [day |-> 0, time |-> FirstTime]
    /\ req = [r \in Reqs |-> Idle]
    /\ cs = NoEval
    /\ pc_perm = NoPerm
    /\ ExtInit

NextAdmin ==
    \/ \E u \in users, department \in {NoValue, "Development"} :
            get_employees(u.id, department)
    \/ \E u \in users, employee_data \in EmployeeCreates,
          temp_password \in Passwords :
            create_employee(u.id, employee_data, temp_password, "none")
    \/ \E u \in users, employee_id \in EmployeeIds,
          employee_data \in EmployeeUpdates :
            update_employee(u.id, employee_id, employee_data)
    \/ \E u \in users, employee_id \in EmployeeIds,
          new_password \in Passwords :
            reset_employee_password(u.id, employee_id, new_password)
    \/ \E u \in users, employee_id \in EmployeeIds \cup {OwnProfile} :
            delete_employee(u.id, employee_id)
    \/ \E smtp_ok \in BOOLEAN : RunBackgroundTask(smtp_ok)

SpecAdmin == InitAdmin /\ [][NextAdmin]_vars

\* the admin and an employee create accounts, anyone registers
InitCreate == InitAdmin

NextCreate ==
    \/ \E user_id \in {2, 4}, employee_data \in EmployeeCreates,
          temp_password \in Passwords, fault \in Faults :
            create_employee(user_id, employee_data, temp_password, fault)
    \/ \E user_data \in UserCreates : register(user_data)
    \/ \E user_id \in {2, 4}, employee_id \in EmployeeIds,
          new_password \in Passwords :
            reset_employee_password(user_id, employee_id, new_password)
    \/ \E smtp_ok \in BOOLEAN : RunBackgroundTask(smtp_ok)

SpecCreate == InitCreate /\ [][NextCreate]_vars

\* the accounts a caller asks for, with the role the request names
RoleUserCreates ==
    {[email |-> Email(n, "x.org"), username |-> n, password |-> "pw",
      role |-> r] :
        n \in {"zed", "yan"}, r \in {"employee", "admin", "super_admin"}}

RoleEmployeeCreates ==
    {[employee_code |-> "E9", first_name |-> "Zed",
      email |-> Email("zed", "x.org"), department |-> "Development",
      role |-> r] : r \in {"employee", "admin"}}

\* accounts are created by register and by create_employee
NextRoles ==
    \/ \E user_data \in RoleUserCreates : register(user_data)
    \/ \E user_id \in {2, 3, 4}, employee_data \in RoleEmployeeCreates,
          temp_password \in Passwords :
            create_employee(user_id, employee_data, temp_password, "none")
    \/ \E smtp_ok \in BOOLEAN : RunBackgroundTask(smtp_ok)

SpecRoles == InitAdmin /\ [][NextRoles]_vars

-----------------------------------------------------------------------------
(* Password reset codes and password changes: app/api/v1/auth.py and       *)
(* change_my_password of app/api/v1/employees.py                           *)

MaxClock == 12       \* minutes the clock runs for

RESET_CODE_MINUTES == 10
MIN_PASSWORD_LENGTH == 8

\* verify_password (app/core/security.py)
verify_password(plain_password, hashed_password) ==
    hashed_password = get_password_hash(plain_password)

\* d[key] = value
DictSet(d, key, value) ==
    [k \in DOMAIN d \cup {key} |-> IF k = key THEN value ELSE d[k]]

\* del d[key] leaving the entry in place
DictDel_keeps(d, key) == d

\* del d[key]
DictDel(d, key) == [k \in DOMAIN d \ {key} |-> d[k]]

\* db.query(User).filter(User.email == email).first()
UserByEmail(table, email) ==
    IF \E u \in table : u.email = email
    THEN CHOOSE u \in table : u.email = email
    ELSE NoUser

\* forgot_password telling the caller that no account has the email
forgot_password_response_not_found(user) ==
    IF user = NoUser
    THEN [status |-> 404, detail |-> "User not found"]
    ELSE [status |-> 200,
          detail |-> "If the email exists, a reset code will be sent"]

\* what forgot_password returns on either branch
forgot_password_response(user) ==
    [status |-> 200,
     detail |-> "If the email exists, a reset code will be sent"]

\* the expiry test of reset_password never finding a code expired
reset_code_expired_never(time, expires_at) == FALSE

\* datetime.utcnow() > stored_data["expires_at"]
reset_code_expired(time, expires_at) == time > expires_at

\* the length test accepting every password that is not empty
password_too_short_empty_only(password) == Len(password) < 1

\* len(new_password) < 8
password_too_short(password) == Len(password) < MIN_PASSWORD_LENGTH

forgot_password(email, reset_code) ==
    LET user == UserByEmail(users, email)
        response == forgot_password_response(user)
        \* the email asked for and the code drawn for it, which goes to the
        \* server's log only
        args == [email |-> email,
                 reset_code |-> IF user = NoUser THEN "" ELSE reset_code]
    IN /\ IF user = NoUser
          THEN UNCHANGED reset_codes
          ELSE reset_codes' =
                   DictSet(reset_codes, email,
                           [code |-> reset_code,
                            expires_at |-> utcnow + RESET_CODE_MINUTES])
       /\ web' = Respond("forgot_password", Anonymous, 0, args,
                         response.status, response.detail, {})
       /\ UNCHANGED <<coreVars, tableVars, storeVars, workVars, gate, mail,
                      utcnow>>

reset_password(request) ==
    LET stored_data == reset_codes[request.email]
        user == UserByEmail(users, request.email)
        Refuse(status, detail) ==
            /\ web' = Respond("reset_password", Anonymous, 0, request, status,
                              detail, {})
            /\ UNCHANGED users
    IN /\ IF request.email \notin DOMAIN reset_codes
          THEN /\ Refuse(400, "Invalid or expired reset code")
               /\ UNCHANGED reset_codes
          ELSE IF stored_data.code # request.reset_code
          THEN /\ Refuse(400, "Invalid reset code")
               /\ UNCHANGED reset_codes
          ELSE IF reset_code_expired(utcnow, stored_data.expires_at)
          THEN /\ reset_codes' = DictDel(reset_codes, request.email)
               /\ Refuse(400, "Reset code has expired")
          ELSE IF user = NoUser
          THEN /\ Refuse(404, "User not found")
               /\ UNCHANGED reset_codes
          ELSE IF password_too_short(request.new_password)
          THEN /\ Refuse(400, "Password must be at least 8 characters long")
               /\ UNCHANGED reset_codes
          ELSE /\ users' = (users \ {user})
                     \cup {[user EXCEPT !.hashed_password =
                                   get_password_hash(request.new_password)]}
               /\ reset_codes' = DictDel(reset_codes, request.email)
               /\ web' = Respond("reset_password", Anonymous, user.id, request,
                                 200, "Password reset successfully", {})
       /\ UNCHANGED <<coreVars, tableVars, workVars, employees, blogs, ids,
                      gate, mail, utcnow>>

\* the body of change_my_password, run with the user the dependency returned
ChangeMyPassword(current_user, password_data) ==
    LET Refuse(status, detail) ==
            /\ web' = Respond("change_my_password", current_user,
                              current_user.id, password_data, status, detail,
                              {})
            /\ UNCHANGED users
    IN IF ~verify_password(password_data.current_password,
                           current_user.hashed_password)
       THEN Refuse(400, "Current password is incorrect")
       ELSE IF password_too_short(password_data.new_password)
       THEN Refuse(400, "New password must be at least 8 characters long")
       ELSE IF verify_password(password_data.new_password,
                               current_user.hashed_password)
       THEN Refuse(400,
                   "New password must be different from current password")
       ELSE /\ users' = (users \ {current_user})
                  \cup {[current_user EXCEPT !.hashed_password =
                            get_password_hash(password_data.new_password)]}
            /\ web' = Respond("change_my_password", current_user,
                              current_user.id, password_data, 200,
                              "Password changed successfully", {})

change_my_password(user_id, password_data) ==
    LET current_user == UserById(users, user_id)
    IN /\ current_user # NoUser
       /\ ChangeMyPassword(current_user, password_data)
       /\ UNCHANGED <<coreVars, tableVars, workVars, authVars, employees,
                      blogs, ids, gate, mail>>

\* the wall clock moves on
AdvanceClock(minutes) ==
    /\ utcnow + minutes <= MaxClock
    /\ utcnow' = utcnow + minutes
    /\ UNCHANGED <<coreVars, tableVars, storeVars, workVars, gate, web, mail,
                   reset_codes>>

\* the requests of the password handlers
ResetEmails == {Email("employee", "phase1.com"), Email("nobody", "x.org")}
ResetCodes == {"111111", "222222"}
NewPasswords == {"short12", "longenough"}

ResetPasswordRequests ==
    {[email |-> e, reset_code |-> c, new_password |-> p] :
        e \in ResetEmails, c \in ResetCodes,
        p \in {"short12", "resetpass1"}}

ChangePasswordRequests ==
    {[current_password |-> c, new_password |-> p] :
        c \in {"emp123", "longenough"}, p \in NewPasswords}


NextAuth ==
    \/ \E email \in ResetEmails, reset_code \in ResetCodes :
            forgot_password(email, reset_code)
    \/ \E request \in ResetPasswordRequests : reset_password(request)
    \/ \E password_data \in ChangePasswordRequests :
            change_my_password(4, password_data)
    \/ delete_employee(2, 3)
    \/ \E minutes \in {5, 6} : AdvanceClock(minutes)

SpecAuth == InitAdmin /\ [][NextAuth]_vars

-----------------------------------------------------------------------------
(* A request through Depends(get_current_user): identity resolution of     *)
(* app/api/deps.py followed by the handler, here change_my_password        *)

\* PUT /employees/me/password carrying the token: the dependency raises, or
\* the handler body runs with the user it returned
RequestChangeMyPassword(token, password_data) ==
    LET r == get_current_user(users, token)
    IN /\ gate' = [GateIdle EXCEPT !.pc = "done",
                                   !.kind = "get_current_user",
                                   !.token = token,
                                   !.current_user = r.user.id,
                                   !.role = r.user.role,
                                   !.status = r.status,
                                   !.detail = r.detail,
                                   !.executed = (r.status = 200)]
       /\ IF r.status # 200
          THEN /\ web' = Respond("change_my_password", NoUser, 0,
                                 password_data, r.status, r.detail, {})
               /\ UNCHANGED users
          ELSE ChangeMyPassword(r.user, password_data)
       /\ UNCHANGED <<coreVars, tableVars, workVars, authVars, employees,
                      blogs, ids, mail>>

\* the users table as seeded, and with the is_active column of one row
\* cleared: the column is tested by get_current_user and written by no
\* handler
Deactivated(table, id) ==
    {IF u.id = id THEN [u EXCEPT !.is_active = FALSE] ELSE u : u \in table}

InitIdentity ==
    /\ attendance = <<>>
    /\ now = [day |-> 0, time |-> FirstTime]
    /\ req = [r \in Reqs |-> Idle]
    /\ cs = NoEval
    /\ pc_perm = NoPerm
    /\ role_table = ROLE_PERMISSIONS
    /\ perm_log = <<>>
    /\ users \in {SeedUsers, Deactivated(SeedUsers, 3)}
    /\ employees = SeedEmployees
    /\ blogs = {}
    /\ ids = SeedIds
    /\ gate = GateIdle
    /\ web = NoRequest
    /\ mail = NoMail
    /\ reset_codes = NoCodes
    /\ utcnow = 0
    /\ projects = SeedProjects
    /\ tasks = {}
    /\ system_settings = SeedSettings

IdentityPasswordRequests ==
    {[current_password |-> c, new_password |-> p] :
        c \in {"emp123", "pm123"}, p \in NewPasswords}

NextIdentity ==
    \E token \in Tokens, password_data \in IdentityPasswordRequests :
        RequestChangeMyPassword(token, password_data)

SpecIdentity == InitIdentity /\ [][NextIdentity]_vars

-----------------------------------------------------------------------------
(* Projects and tasks: app/api/v1/projects.py and app/api/v1/tasks.py, and *)
(* update_my_profile of app/api/v1/employees.py                            *)

MaxTasks == 1        \* tasks created

\* None where the field is an id
NoId == 0

\* Task(project_id, title, assigned_to_id, created_by_id, status)
NewTask(id, project_id, title, assigned_to_id, created_by_id, status) ==
    [id |-> id, project_id |-> project_id, title |-> title,
     assigned_to_id |-> assigned_to_id, created_by_id |-> created_by_id,
     status |-> status]

NoTask == NewTask(0, 0, "", NoId, 0, "none")
NoProject == NewProject(0, "", "", 0, "none")

\* db.query(Task).filter(Task.id == task_id).first()
TaskById(table, task_id) ==
    IF \E t \in table : t.id = task_id
    THEN CHOOSE t \in table : t.id = task_id
    ELSE NoTask

\* db.query(Project).filter(Project.id == project_id).first()
ProjectById(table, project_id) ==
    IF \E p \in table : p.id = project_id
    THEN CHOOSE p \in table : p.id = project_id
    ELSE NoProject

\* db.query(Employee).filter(Employee.user_id == user_id).first()
EmployeeByUser(table, user_id) ==
    IF \E e \in table : e.user_id = user_id
    THEN CHOOSE e \in table : e.user_id = user_id
    ELSE NoEmployee

\* the assignments of update_project made whatever the request holds
PatchProject_overwrites(project, project_data) ==
    [project EXCEPT !.name = project_data.name,
                    !.status = project_data.status]

\* the assignments of update_project: a field the request leaves None keeps
\* its value
PatchProject(project, project_data) ==
    [project EXCEPT
        !.name = IF project_data.name # NoValue THEN project_data.name
                 ELSE @,
        !.status = IF project_data.status # NoValue THEN project_data.status
                   ELSE @]

\* the assignments of update_task
PatchTask(task, task_data) ==
    [task EXCEPT
        !.title = IF task_data.title # NoValue THEN task_data.title ELSE @,
        !.assigned_to_id = IF task_data.assigned_to_id # NoId
                           THEN task_data.assigned_to_id ELSE @,
        !.status = IF task_data.status # NoValue THEN task_data.status
                   ELSE @]

update_my_profile(user_id, employee_data) ==
    LET current_user == UserById(users, user_id)
        employee == EmployeeByUser(employees, current_user.id)
        updated == IF employee_data.first_name # NoValue
                   THEN [employee EXCEPT
                            !.first_name = employee_data.first_name]
                   ELSE employee
        Refuse(status, detail) ==
            /\ web' = Respond("update_my_profile", current_user, employee.id,
                              employee_data, status, detail, {})
            /\ UNCHANGED <<users, employees>>
    IN /\ current_user # NoUser
       /\ IF employee = NoEmployee
          THEN Refuse(404, "Employee profile not found")
          ELSE IF /\ employee_data.email # NoEmail
                  /\ \E u \in users : /\ u.email = employee_data.email
                                      /\ u.id # current_user.id
          THEN Refuse(400, "Email already in use")
          ELSE /\ employees' = (employees \ {employee}) \cup {updated}
               /\ users' = IF employee_data.email # NoEmail
                           THEN (users \ {current_user})
                                \cup {[current_user EXCEPT
                                          !.email = employee_data.email]}
                           ELSE users
               /\ web' = Respond("update_my_profile", current_user,
                                 employee.id, employee_data, 200, "",
                                 {updated})
       /\ UNCHANGED <<coreVars, authVars, workVars, tableVars, blogs, ids,
                      gate, mail>>

update_project(user_id, project_id, project_data) ==
    LET current_user == UserById(users, user_id)
        project == ProjectById(projects, project_id)
        updated == PatchProject(project, project_data)
        Refuse(status, detail) ==
            /\ web' = Respond("update_project", current_user, project_id,
                              project_data, status, detail, {})
            /\ UNCHANGED projects
    IN /\ current_user # NoUser
       /\ IF NotAuthorized(current_user.role)
          THEN Refuse(403, "Not authorized")
          ELSE IF project = NoProject
          THEN Refuse(404, "Project not found")
          ELSE /\ projects' = (projects \ {project}) \cup {updated}
               /\ web' = Respond("update_project", current_user, project_id,
                                 project_data, 200, "", {updated})
       /\ UNCHANGED <<coreVars, authVars, tableVars, storeVars, tasks,
                      system_settings, gate, mail>>

create_task(user_id, task_data) ==
    LET current_user == UserById(users, user_id)
        project == ProjectById(projects, task_data.project_id)
        task == NewTask(ids.tasks, task_data.project_id, task_data.title,
                        task_data.assigned_to_id, current_user.id, "todo")
        Refuse(status, detail) ==
            /\ web' = Respond("create_task", current_user, 0, task_data,
                              status, detail, {})
            /\ UNCHANGED <<tasks, ids>>
    IN /\ current_user # NoUser
       /\ ids.tasks <= MaxTasks
       /\ IF project = NoProject
          THEN Refuse(404, "Project not found")
          ELSE IF current_user.role \notin {"super_admin", "admin",
                                            "project_manager"}
          THEN Refuse(403, "Not authorized to create tasks")
          ELSE /\ tasks' = tasks \cup {task}
               /\ ids' = [ids EXCEPT !.tasks = @ + 1]
               /\ web' = Respond("create_task", current_user, task.id,
                                 task_data, 200, "", {task})
       /\ UNCHANGED <<coreVars, authVars, tableVars, users, employees, blogs,
                      projects, system_settings, gate, mail>>

update_task(user_id, task_id, task_data) ==
    LET current_user == UserById(users, user_id)
        task == TaskById(tasks, task_id)
        updated == PatchTask(task, task_data)
        Refuse(status, detail) ==
            /\ web' = Respond("update_task", current_user, task_id, task_data,
                              status, detail, {})
            /\ UNCHANGED tasks
    IN /\ current_user # NoUser
       /\ IF task = NoTask
          THEN Refuse(404, "Task not found")
          ELSE IF /\ current_user.role = "employee"
                  /\ task.assigned_to_id # current_user.id
          THEN Refuse(403, "Not authorized")
          ELSE /\ tasks' = (tasks \ {task}) \cup {updated}
               /\ web' = Respond("update_task", current_user, task_id,
                                 task_data, 200, "", {updated})
       /\ UNCHANGED <<coreVars, authVars, tableVars, storeVars, projects,
                      system_settings, gate, mail>>

update_task_status(user_id, task_id, status) ==
    LET current_user == UserById(users, user_id)
        task == TaskById(tasks, task_id)
        updated == [task EXCEPT !.status = status]
        args == [status |-> status]
    IN /\ current_user # NoUser
       /\ IF task = NoTask
          THEN /\ web' = Respond("update_task_status", current_user, task_id,
                                 args, 404, "Task not found", {})
               /\ UNCHANGED tasks
          ELSE /\ tasks' = (tasks \ {task}) \cup {updated}
               /\ web' = Respond("update_task_status", current_user, task_id,
                                 args, 200,
                                 "Task status updated successfully", {})
       /\ UNCHANGED <<coreVars, authVars, tableVars, storeVars, projects,
                      system_settings, gate, mail>>

\* the requests of the update handlers: each field left None or given
ProjectUpdates ==
    {[name |-> n, status |-> s] :
        n \in {NoValue, "Phase-2"}, s \in {NoValue, "completed"}}

TaskUpdates ==
    {[title |-> t, assigned_to_id |-> a, status |-> s] :
        t \in {NoValue, "Review"}, a \in {NoId, 4},
        s \in {NoValue, "completed"}}

BlogUpdates ==
    {[title |-> t, content |-> NoValue] : t \in {NoValue, "News"}}
    \cup {[title |-> NoValue, content |-> "more"]}


NextPatch ==
    \/ \E employee_data \in EmployeeUpdates :
            update_employee(2, 3, employee_data)
    \/ \E employee_data \in EmployeeUpdates :
            update_my_profile(4, employee_data)
    \/ \E user_id \in {2, 4}, project_data \in ProjectUpdates :
            update_project(user_id, 1, project_data)
    \/ create_task(3, [project_id |-> 1, title |-> "Build",
                       assigned_to_id |-> 4])
    \/ \E task_id \in 1..MaxTasks, task_data \in TaskUpdates :
            update_task(4, task_id, task_data)
    \/ create_blog(5, "hello", "Hello", "text")
    \/ \E blog_data \in BlogUpdates : update_blog(5, 1, blog_data)

SpecPatch == InitAdmin /\ [][NextPatch]_vars

\* the tasks a project manager creates: assigned to nobody, to the employee
\* or to the content editor
TaskCreates ==
    {[project_id |-> 1, title |-> "Build", assigned_to_id |-> a] :
        a \in {NoId, 4, 5}}

\* the project manager and the employee work on tasks
NextTask ==
    \/ \E task_data \in TaskCreates : create_task(3, task_data)
    \/ \E user_id \in {3, 4}, task_id \in 1..MaxTasks,
          task_data \in TaskUpdates :
            update_task(user_id, task_id, task_data)
    \/ \E user_id \in {3, 4}, task_id \in 1..MaxTasks,
          status \in {"in_progress", "completed"} :
            update_task_status(user_id, task_id, status)

SpecTask == InitAdmin /\ [][NextTask]_vars

\* the "Only admin can publish" test of update_blog_status letting the
\* content editor publish too
publish_forbidden_editor_allowed(status, role) ==
    /\ status = "published"
    /\ role \notin {"super_admin", "admin", "content_editor"}

\* the "Only admin can publish" test of update_blog_status
publish_forbidden(status, role) ==
    /\ status = "published"
    /\ role \notin {"super_admin", "admin"}

update_blog_status(user_id, blog_id, status) ==
    LET current_user == UserById(users, user_id)
        blog == BlogById(blogs, blog_id)
        args == [status |-> status]
        updated == [blog EXCEPT
                       !.status = status,
                       !.published_at = IF status = "published"
                                        THEN <<utcnow>> ELSE @]
        Refuse(code, detail) ==
            /\ web' = Respond("update_blog_status", current_user, blog_id,
                              args, code, detail, {})
            /\ UNCHANGED blogs
    IN /\ current_user # NoUser
       /\ IF blog = NoBlog
          THEN Refuse(404, "Blog not found")
          ELSE IF publish_forbidden(status, current_user.role)
          THEN Refuse(403, "Only admins can publish blogs")
          ELSE /\ blogs' = (blogs \ {blog}) \cup {updated}
               /\ web' = Respond("update_blog_status", current_user, blog_id,
                                 args, 200,
                                 "Blog status updated successfully", {})
       /\ UNCHANGED <<coreVars, authVars, workVars, tableVars, users,
                      employees, ids, gate, mail>>

\* BlogStatus
BlogStatus == {"draft", "review", "published", "archived"}

\* the admin, the employee and the content editor write and publish
NextPublish ==
    \/ \E user_id \in {2, 4, 5} : create_blog(user_id, "hello", "Hello", "text")
    \/ \E user_id \in {2, 5}, blog_data \in BlogUpdates :
            update_blog(user_id, 1, blog_data)
    \/ \E user_id \in {2, 4, 5}, status \in BlogStatus :
            update_blog_status(user_id, 1, status)
    \/ \E minutes \in {5, 6} : AdvanceClock(minutes)

SpecPublish == InitAdmin /\ [][NextPublish]_vars

-----------------------------------------------------------------------------
(* System settings: app/api/v1/settings.py *)

NoSetting == NewSetting(0, "", "", "")

\* db.query(SystemSettings).filter(SystemSettings.key == key).first()
SettingByKey(table, key) ==
    IF \E s \in table : s.key = key
    THEN CHOOSE s \in table : s.key = key
    ELSE NoSetting

update_setting(user_id, key, setting_data) ==
    LET current_user == UserById(users, user_id)
        setting == SettingByKey(system_settings, key)
        args == [key |-> key, value |-> setting_data.value]
        updated == [setting EXCEPT !.value = setting_data.value]
        Refuse(status, detail) ==
            /\ web' = Respond("update_setting", current_user, 0, args, status,
                              detail, {})
            /\ UNCHANGED system_settings
    IN /\ current_user # NoUser
       /\ IF NotAuthorized(current_user.role)
          THEN Refuse(403, "Not authorized")
          ELSE IF setting = NoSetting
          THEN Refuse(404, "Setting not found")
          ELSE /\ system_settings' =
                     (system_settings \ {setting}) \cup {updated}
               /\ web' = Respond("update_setting", current_user, setting.id,
                                 args, 200, "Setting updated successfully",
                                 {updated})
       /\ UNCHANGED <<coreVars, authVars, tableVars, storeVars, projects,
                      tasks, gate, mail>>

\* two seeded keys and one that is not a setting
SettingKeys == {"office_start_time", "grace_period_minutes", "no_such_key"}
SettingValues == {"09:30", "10:00"}

NextSettings ==
    \E u \in users, key \in SettingKeys, value \in SettingValues :
        update_setting(u.id, key, [value |-> value])

SpecSettings == InitAdmin /\ [][NextSettings]_vars

-----------------------------------------------------------------------------
(* Properties of the attendance service *)

Rows == 1..Len(attendance)

\* request r leaves "idle" in this step: the read step of operation op for
\* employee e on day d
Starts(r, op, e, d) ==
    /\ req[r].pc = "idle"
    /\ req'[r].pc # "idle"
    /\ req'[r].op = op
    /\ req'[r].employee_id = e
    /\ req'[r].today = d

\* request r commits operation op in this step
Commits(r, op) ==
    /\ req[r].pc = "commit"
    /\ req[r].op = op
    /\ req'[r].pc = "done"

\* C1: in every reachable state there is at most one attendance record for
\* a given (employee_id, date).
C1_OneRecordPerEmployeeDay ==
    \A i, j \in Rows :
        (attendance[i].employee_id = attendance[j].employee_id
            /\ attendance[i].date = attendance[j].date) => i = j

\* C2: of two check_in requests for the same employee and the same day, at
\* most one succeeds: when one has created the record, the other ends with
\* AlreadyCheckedIn.
C2_OneCheckInSucceeds ==
    \A r, q \in Reqs :
        (/\ r # q
         /\ req[r].pc = "done" /\ req[q].pc = "done"
         /\ req[r].op = "check_in" /\ req[q].op = "check_in"
         /\ req[r].employee_id # 0
         /\ req[r].employee_id = req[q].employee_id
         /\ req[r].today = req[q].today)
        => (req[r].outcome = "ok" => req[q].outcome = "AlreadyCheckedIn")

\* C3: a check_in by an employee whose record of today already has a
\* check-in time ends with AlreadyCheckedIn and leaves the table, and so the
\* record's check_in_time, status, check_out_time and working_hours, unchanged.
C3_SecondCheckInRejected ==
    [][\A r \in Reqs, e \in {1, 2}, d \in Days :
         (/\ Starts(r, "check_in", e, d)
          /\ \E i \in Rows : /\ attendance[i].employee_id = e
                             /\ attendance[i].date = d
                             /\ attendance[i].check_in_time # None)
         => /\ req'[r].pc = "done"
            /\ req'[r].outcome = "AlreadyCheckedIn"
            /\ attendance' = attendance]_vars

\* a check_in was rejected while the record it found stays as it was
C3_Witness ==
    \E r \in Reqs :
        /\ req[r].pc = "done"
        /\ req[r].op = "check_in"
        /\ req[r].outcome = "AlreadyCheckedIn"
        /\ \E i \in Rows : /\ attendance[i].employee_id = req[r].employee_id
                           /\ attendance[i].date = req[r].today
                           /\ attendance[i].check_in_time # None

\* C4: a check_out by an employee with no record of today that has a check-in
\* time ends with NotCheckedIn, creates no record and modifies none; and no
\* step of a check_out request ever adds a record.
C4_CheckOutWithoutCheckIn ==
    [][/\ \A r \in Reqs, e \in {1, 2}, d \in Days :
            (/\ Starts(r, "check_out", e, d)
             /\ ~ \E i \in Rows : /\ attendance[i].employee_id = e
                                  /\ attendance[i].date = d
                                  /\ attendance[i].check_in_time # None)
            => /\ req'[r].pc = "done"
               /\ req'[r].outcome = "NotCheckedIn"
               /\ attendance' = attendance
       /\ \A r \in Reqs :
            (req[r] # req'[r] /\ req'[r].op = "check_out")
            => Len(attendance') = Len(attendance)]_vars

\* a check_out was rejected with NotCheckedIn and the employee has no record
\* of that day
C4_Witness ==
    \E r \in Reqs :
        /\ req[r].pc = "done"
        /\ req[r].op = "check_out"
        /\ req[r].outcome = "NotCheckedIn"
        /\ ~ \E i \in Rows : /\ attendance[i].employee_id = req[r].employee_id
                             /\ attendance[i].date = req[r].today

\* C5: a record with a check-out time has a check-in time; once a check-out
\* time is recorded, check_in_time, check_out_time and working_hours of the
\* record are never overwritten, and a request that then starts for that
\* employee and day is rejected (AlreadyCheckedIn / AlreadyCheckedOut).
C5_CheckedOutIsTerminal ==
    [][/\ \A i \in Rows :
            attendance[i].check_out_time # None
            => /\ attendance[i].check_in_time # None
               /\ attendance'[i].check_in_time = attendance[i].check_in_time
               /\ attendance'[i].check_out_time = attendance[i].check_out_time
               /\ attendance'[i].working_hours = attendance[i].working_hours
       /\ \A r \in Reqs, e \in {1, 2}, d \in Days :
            (/\ \/ Starts(r, "check_in", e, d)
                \/ Starts(r, "check_out", e, d)
             /\ \E i \in Rows : /\ attendance[i].employee_id = e
                                /\ attendance[i].date = d
                                /\ attendance[i].check_out_time # None)
            => /\ req'[r].pc = "done"
               /\ req'[r].outcome \in {"AlreadyCheckedIn", "AlreadyCheckedOut"}]_vars

\* C6: calculate_status(t) is present exactly when t lies at most the grace
\* period after the office start, the difference taken in minutes with its
\* fraction, and late otherwise; with office start 09:30 and grace 15 every
\* check-in up to and including 09:45:00 is present (also before 09:30), 09:44
\* is present and 09:46 is late.
C6_StatusByGracePeriod ==
    cs.result # "none" =>
        LET hour == cs.t \div 3600
            minute == (cs.t % 3600) \div 60
            second == cs.t % 60
            \* sixtieths of a minute after 09:30
            after == ((hour * 60 + minute) - (9 * 60 + 30)) * 60 + second
        IN /\ cs.result \in {"present", "late"}
           /\ cs.result = "present" <=> after <= 15 * 60
           /\ (hour < 9 \/ (hour = 9 /\ minute < 45)) => cs.result = "present"
           /\ (hour = 9 /\ minute = 45 /\ second = 0) => cs.result = "present"
           /\ (hour = 9 /\ minute = 44) => cs.result = "present"
           /\ (hour = 9 /\ minute = 46) => cs.result = "late"
           /\ hour >= 10 => cs.result = "late"

\* the check-in at 09:45:00, the last instant of the grace period, is present
C6_Witness ==
    cs = [t |-> 9 * 3600 + 45 * 60, result |-> "present"]

\* C7: a successful check_in leaves the record it wrote with status present or
\* late, and a successful check_out leaves every record's status as it was.
C7_StatusOnlyAtCheckIn ==
    [][\A r \in Reqs :
         /\ Commits(r, "check_in")
            => /\ Len(attendance') >= Len(attendance)
               /\ \A i \in 1..Len(attendance') :
                    (i > Len(attendance) \/ attendance'[i] # attendance[i])
                    => attendance'[i].status \in {"present", "late"}
               /\ \E i \in 1..Len(attendance') :
                    i > Len(attendance) \/ attendance'[i] # attendance[i]
         /\ Commits(r, "check_out")
            => /\ Len(attendance') = Len(attendance)
               /\ \A i \in Rows : attendance'[i].status = attendance[i].status]_vars

\* a record checked in on time has been checked out at a time of day that
\* calculate_status would call late, and is still present
C7_Witness ==
    \E i \in Rows :
        /\ attendance[i].check_out_time # None
        /\ attendance[i].status = "present"
        /\ calculate_status(attendance[i].check_out_time) = "late"

\* C8: a successful check_out stores as working_hours the difference between
\* the check-out time and the record's check-in time in hours, rounded to two
\* decimals (09:00 to 17:30 gives 8.5), and leaves check_in_time unchanged.
C8_WorkingHoursRounded ==
    [][\A r \in Reqs :
         Commits(r, "check_out") =>
            LET id == req[r].row.id
                seconds == attendance'[id].check_out_time
                              - attendance'[id].check_in_time
                hundredths == attendance'[id].working_hours
            IN /\ id \in Rows
               /\ attendance'[id].check_in_time = attendance[id].check_in_time
               /\ attendance'[id].check_out_time = now.time
               \* |hundredths / 100 - seconds / 3600| <= 0.005
               /\ 36 * hundredths - seconds <= 18
               /\ seconds - 36 * hundredths <= 18
               /\ (attendance'[id].check_in_time = 9 * 3600
                     /\ attendance'[id].check_out_time = 17 * 3600 + 30 * 60)
                  => hundredths = 850]_vars

\* a record checked in at 09:00 and checked out at 17:30 holds 8.5 hours
C8_Witness ==
    \E i \in Rows :
        /\ attendance[i].check_in_time = 9 * 3600
        /\ attendance[i].check_out_time = 17 * 3600 + 30 * 60
        /\ attendance[i].working_hours = 850

\* C9: working_hours of every record is non-negative in every reachable
\* state, and a check_out whose time of day is earlier than the record's
\* check-in time does not succeed.
C9_WorkingHoursNonNegative ==
    \A i \in Rows :
        /\ attendance[i].working_hours >= 0
        /\ attendance[i].check_out_time # None
           => attendance[i].check_out_time >= attendance[i].check_in_time

\* C10: for each of the five roles and every permission string
\* has_permission returns a boolean that is true exactly when the string is
\* listed in that role's own entry of the table; super_admin does not hold
\* create_projects.
C10_OwnEntryOnly ==
    (pc_perm.pc = "returned" /\ pc_perm.role \in UserRole) =>
        LET entry == ROLE_PERMISSIONS[pc_perm.role]
            listed == {entry[i] : i \in 1..Len(entry)}
        IN /\ pc_perm.result \in BOOLEAN
           /\ pc_perm.result <=> pc_perm.permission \in listed
           /\ (pc_perm.role = "super_admin"
                 /\ pc_perm.permission = "create_projects")
              => pc_perm.result = FALSE
           /\ (pc_perm.role = "project_manager"
                 /\ pc_perm.permission = "create_projects")
              => pc_perm.result = TRUE

\* has_permission returned false for super_admin and create_projects
C10_Witness ==
    pc_perm = [pc |-> "returned", role |-> "super_admin",
               permission |-> "create_projects", result |-> FALSE]

-----------------------------------------------------------------------------
(* Properties of the role-permission table *)

\* C11: for a role value with no entry in the table get_user_permissions
\* returns the empty collection and has_permission returns false for every
\* permission.
C11_UnknownRoleFailsClosed ==
    \A i \in 1..Len(perm_log) :
        perm_log[i].role \notin UserRole =>
            /\ perm_log[i].fn = "get_user_permissions"
                  => perm_log[i].permissions = <<>>
            /\ perm_log[i].fn = "has_permission"
                  => perm_log[i].allowed = FALSE

\* both functions have been called with the role value that has no entry
C11_Witness ==
    /\ \E i \in 1..Len(perm_log) :
         /\ perm_log[i].fn = "get_user_permissions"
         /\ perm_log[i].role = "auditor"
         /\ perm_log[i].permissions = <<>>
    /\ \E i \in 1..Len(perm_log) :
         /\ perm_log[i].fn = "has_permission"
         /\ perm_log[i].role = "auditor"
         /\ perm_log[i].permission = "manage_users"
         /\ perm_log[i].allowed = FALSE

-----------------------------------------------------------------------------
(* Properties of the authorization dependencies *)

\* C13: a request of an authenticated user through require_role(L) reaches
\* the guarded operation exactly when the user's role is an element of L;
\* with any other role it ends in 403 and the operation has not run.
C13_RoleGateExactMembership ==
    (/\ gate.kind = "require_role"
     /\ gate.current_user # 0
     /\ gate.pc \in {"endpoint", "done"})
    => IF gate.role \in Elems(gate.required_roles)
       THEN /\ gate.status # 403
            /\ gate.pc = "done" => gate.executed /\ gate.status = 200
       ELSE /\ gate.pc = "done"
            /\ gate.status = 403
            /\ ~gate.executed

\* the super admin was refused by a list that names only other roles
C13_Witness ==
    /\ gate.kind = "require_role"
    /\ gate.pc = "done"
    /\ gate.role = "super_admin"
    /\ gate.required_roles = <<"admin", "employee">>
    /\ gate.status = 403
    /\ ~gate.executed

\* C14: a request of an authenticated user through require_permission(P)
\* reaches the guarded operation exactly when has_permission(role, P) and
\* ends in 403 otherwise; a request whose token names no user ends in 401,
\* never in 403.
C14_PermissionGate ==
    /\ (/\ gate.kind = "require_permission"
        /\ gate.current_user # 0
        /\ gate.pc \in {"endpoint", "done"})
       => IF gate.permission \in Elems(DictGet(ROLE_PERMISSIONS, gate.role, <<>>))
          THEN /\ gate.status # 403
               /\ gate.pc = "done" => gate.executed /\ gate.status = 200
          ELSE /\ gate.pc = "done"
               /\ gate.status = 403
               /\ ~gate.executed
    /\ (/\ gate.kind = "require_permission"
        /\ gate.pc = "done"
        /\ \/ gate.token.text # "jwt"
           \/ \A u \in users : IntOf(gate.token.sub) # u.id)
       => gate.status = 401 /\ ~gate.executed

\* the super admin, whose entry lacks create_projects, was refused with 403
C14_Witness ==
    /\ gate.kind = "require_permission"
    /\ gate.pc = "done"
    /\ gate.role = "super_admin"
    /\ gate.permission = "create_projects"
    /\ gate.status = 403
    /\ ~gate.executed

-----------------------------------------------------------------------------
(* Properties of the blog handlers *)

\* the request just answered was update_blog on a blog that exists
UpdateBlogAnswered ==
    /\ web'.seq # web.seq
    /\ web'.op = "update_blog"
    /\ \E b \in blogs : b.id = web'.target

\* C15: update_blog called by a content editor on a blog they authored is
\* answered 200 and the fields the request gives are stored; called by a
\* content editor on another author's blog it is answered 403 and the blogs
\* table is unchanged.
C15_EditorOwnBlogOnly ==
    [][(UpdateBlogAnswered /\ web'.role = "content_editor") =>
        LET b == BlogById(blogs, web'.target)
            after == BlogById(blogs', web'.target)
        IN IF b.author_id = web'.caller
           THEN /\ web'.status = 200
                /\ web'.args.title # NoValue => after.title = web'.args.title
                /\ web'.args.content # NoValue
                      => after.content = web'.args.content
                /\ blogs' \ {after} = blogs \ {b}
           ELSE /\ web'.status = 403
                /\ blogs' = blogs]_vars

\* the content editor has been refused on the admin's blog, which keeps the
\* title it was created with
C15_Witness ==
    /\ web.op = "update_blog"
    /\ web.role = "content_editor"
    /\ web.status = 403
    /\ web.args.title = "News"
    /\ \E b \in blogs : /\ b.id = web.target
                        /\ b.author_id = 2
                        /\ b.title = "Hello"
    /\ \E b \in blogs : b.author_id = web.caller

\* C16: update_blog on an existing blog is answered 200 exactly when the
\* caller authored the blog or has role admin or super_admin; any other
\* caller is answered 403 and the blogs table is unchanged.
C16_AuthorOrAdminOnly ==
    [][UpdateBlogAnswered =>
        LET b == BlogById(blogs, web'.target)
        IN IF b.author_id = web'.caller \/ web'.role \in {"admin", "super_admin"}
           THEN web'.status = 200
           ELSE /\ web'.status = 403
                /\ blogs' = blogs]_vars

-----------------------------------------------------------------------------
(* Properties of the employee administration handlers *)

AdminOps == {"get_employees", "create_employee", "update_employee",
             "reset_employee_password", "delete_employee"}

\* C17: a request to one of the five administration handlers made by a
\* caller whose role is neither super_admin nor admin is answered 403 and
\* leaves the users and employees tables as they were; only a super_admin
\* or admin is answered 200.
C17_AdminOnly ==
    [][(web'.seq # web.seq /\ web'.op \in AdminOps) =>
        /\ web'.role \notin {"super_admin", "admin"}
              => /\ web'.status = 403
                 /\ users' = users
                 /\ employees' = employees
        /\ web'.status = 200 => web'.role \in {"super_admin", "admin"}
        /\ (users' # users \/ employees' # employees)
              => web'.role \in {"super_admin", "admin"}]_vars

\* the project manager has been refused the deletion of a profile that
\* exists
C17_Witness ==
    /\ web.op = "delete_employee"
    /\ web.role = "project_manager"
    /\ web.status = 403
    /\ \E e \in employees : e.id = web.target

\* C18: a create_employee request, whatever it is answered and whichever
\* statement failed, leaves either both tables as they were or one new user
\* row together with one new employee row that refers to it.
C18_CreateEmployeeAtomic ==
    [][(web'.seq # web.seq /\ web'.op = "create_employee") =>
        \/ users' = users /\ employees' = employees
        \/ \E u \in users' \ users, e \in employees' \ employees :
              /\ users' = users \cup {u}
              /\ employees' = employees \cup {e}
              /\ e.user_id = u.id
              /\ u.email = web'.args.email
              /\ e.employee_code = web'.args.employee_code]_vars

\* the commit of a create_employee request failed after the user row had
\* been flushed, and no row of the request is in either table
C18_Witness ==
    /\ web.op = "create_employee"
    /\ web.args.fault = "commit"
    /\ web.status = 500
    /\ ids.users > SeedIds.users
    /\ users = SeedUsers
    /\ employees = SeedEmployees

\* the username create_employee would store is taken under both spellings
CreateWouldDuplicate ==
    LET a == web'.args
    IN \/ \E e \in employees : e.employee_code = a.employee_code
       \/ \E u \in users : u.email = a.email
       \/ /\ \E u \in users : u.username = a.email.local
          /\ \E u \in users :
                u.username = a.email.local \o "_" \o a.employee_code

RegisterWouldDuplicate ==
    \E u \in users : \/ u.email = web'.args.email
                     \/ u.username = web'.args.username

\* C19: a create_employee request of an admin, or a register request, whose
\* email, employee code or username (for create_employee the email's local
\* part and the local part suffixed with the employee code both) is already
\* stored, is answered 400 with a reason and leaves both tables unchanged.
C19_DuplicateIsConflict ==
    [][(/\ web'.seq # web.seq
        /\ \/ /\ web'.op = "create_employee"
              /\ web'.role \in {"super_admin", "admin"}
              /\ web'.args.fault = "none"
              /\ CreateWouldDuplicate
           \/ /\ web'.op = "register"
              /\ RegisterWouldDuplicate)
       => /\ web'.status = 400
          /\ web'.detail # ""
          /\ users' = users
          /\ employees' = employees]_vars

\* C20: running a queued welcome or password-reset email, whether the send
\* succeeds or fails, changes no row and not the response already given,
\* and the send returns True or False, never an exception.
C20_NotificationBestEffort ==
    [][Len(mail'.queue) < Len(mail.queue) =>
        /\ users' = users
        /\ employees' = employees
        /\ web' = web
        /\ mail'.sent \in {<<"True">>, <<"False">>}]_vars

\* the email of a password reset failed to send: the reset is answered 200
\* and the new password hash is stored
C20_Witness ==
    /\ web.op = "reset_employee_password"
    /\ web.status = 200
    /\ mail.queue = <<>>
    /\ mail.sent = <<"False">>
    /\ \E u \in users : /\ u.id = 4
                        /\ u.hashed_password = get_password_hash("Tmp#1")

-----------------------------------------------------------------------------
(* Properties of the password handlers *)

ResetAnswered == web'.seq # web.seq /\ web'.op = "reset_password"

\* C21: a reset_password request that presents the stored code after its
\* expiry time is answered 400, changes no user row and removes the stored
\* code of that email; a request for an email with no stored code is
\* answered 400 and changes no user row.
C21_ExpiredCodeRejected ==
    [][ResetAnswered =>
        LET r == web'.args
        IN /\ (/\ r.email \in DOMAIN reset_codes
               /\ reset_codes[r.email].code = r.reset_code
               /\ utcnow > reset_codes[r.email].expires_at)
              => /\ web'.status = 400
                 /\ users' = users
                 /\ r.email \notin DOMAIN reset_codes'
           /\ r.email \notin DOMAIN reset_codes
              => /\ web'.status = 400
                 /\ users' = users
                 /\ reset_codes' = reset_codes]_vars

\* the code issued at minute 0 was presented at minute 11 with a password
\* long enough: refused, the entry is gone and the password is the seeded one
C21_Witness ==
    /\ web.op = "reset_password"
    /\ web.detail = "Reset code has expired"
    /\ web.args.new_password = "resetpass1"
    /\ utcnow = 11
    /\ web.args.email \notin DOMAIN reset_codes
    /\ \E u \in users : /\ u.email = web.args.email
                        /\ u.hashed_password = get_password_hash("emp123")


PasswordAnswered ==
    /\ web'.seq # web.seq
    /\ web'.op \in {"reset_password", "change_my_password"}

\* C22 as stated: a reset_password or change_my_password request whose new
\* password has fewer than 8 characters is answered 400 and changes no user
\* row.
C22_ShortPasswordBadRequest ==
    [][(PasswordAnswered /\ Len(web'.args.new_password) < 8)
        => (web'.status = 400 /\ users' = users)]_vars

\* C22: a request whose new password has fewer than 8 characters changes no
\* user row; change_my_password answers it 400, reset_password answers it
\* 400, or 404 when the code is the stored one and has not expired but no
\* user has the email.
C22_ShortPasswordRejected ==
    [][(PasswordAnswered /\ Len(web'.args.new_password) < 8)
        => /\ users' = users
           /\ web'.status # 400
              => /\ web'.status = 404
                 /\ web'.op = "reset_password"
                 /\ UserByEmail(users, web'.args.email) = NoUser
                 /\ web'.args.email \in DOMAIN reset_codes
                 /\ reset_codes[web'.args.email].code = web'.args.reset_code
                 /\ utcnow <= reset_codes[web'.args.email].expires_at]_vars

\* both handlers have refused a password for its length alone
C22_Witness ==
    /\ web.op \in {"reset_password", "change_my_password"}
    /\ Len(web.args.new_password) < 8
    /\ web.status = 400
    /\ \/ /\ web.op = "reset_password"
          /\ web.detail = "Password must be at least 8 characters long"
          /\ \E u \in users :
                /\ u.email = web.args.email
                /\ u.hashed_password = get_password_hash("longenough")
       \/ /\ web.op = "change_my_password"
          /\ web.detail = "New password must be at least 8 characters long"
          /\ \E u \in users :
                /\ u.id = web.caller
                /\ u.hashed_password = get_password_hash("longenough")
\* the users table that differs from the present one only in whether a
\* user has the email
TwinUsers(email) ==
    IF \E u \in users : u.email = email
    THEN {u \in users : u.email # email}
    ELSE users \cup {NewUser(ids.users, email, "twin",
                             get_password_hash("twin"), "employee", TRUE)}

\* C25: the answer of forgot_password (status, message, body) is the one it
\* gives when the users table differs only in whether a user has the
\* requested email: 200 with the same message and an empty body in both.
C25_ForgotPasswordSameAnswer ==
    [][(web'.seq # web.seq /\ web'.op = "forgot_password") =>
        LET email == web'.args.email
            twin == forgot_password_response(
                        UserByEmail(TwinUsers(email), email))
        IN /\ (UserByEmail(TwinUsers(email), email) = NoUser)
              # (UserByEmail(users, email) = NoUser)
           /\ web'.status = twin.status
           /\ web'.detail = twin.detail
           /\ web'.status = 200
           /\ web'.detail = "If the email exists, a reset code will be sent"
           /\ web'.body = {}
           /\ web'.caller = 0]_vars

\* a request for an email nobody has was answered after a code had been
\* stored for a registered one
C25_Witness ==
    /\ web.op = "forgot_password"
    /\ web.status = 200
    /\ UserByEmail(users, web.args.email) = NoUser
    /\ web.args.email \notin DOMAIN reset_codes
    /\ \E e \in DOMAIN reset_codes : UserByEmail(users, e) # NoUser

-----------------------------------------------------------------------------
(* Properties of identity resolution *)

\* str(user.id) as login puts it into the token's sub
RECURSIVE DecimalOf(_)
DecimalOf(n) ==
    LET digits == <<"0", "1", "2", "3", "4", "5", "6", "7", "8", "9">>
    IN IF n < 10 THEN <<digits[n + 1]>>
       ELSE Append(DecimalOf(n \div 10), digits[(n % 10) + 1])

\* the token decodes and its subject is the decimal id of a row of users
TokenNamesUser(token) ==
    /\ token.text = "jwt"
    /\ token.sub # NoSub
    /\ \E u \in users : token.sub = DecimalOf(u.id)

\* C23: the handler body runs only for a token that decodes and whose subject
\* is the decimal id of an existing, active user, and then runs as that
\* user; a request whose token is missing, does not decode, has no subject
\* or names no user is answered 401 without running the body, and no table
\* nor the reset codes change.
C23_IdentityResolution ==
    [][(web'.seq # web.seq /\ gate'.kind = "get_current_user") =>
        /\ gate'.executed
           => /\ TokenNamesUser(gate'.token)
              /\ \E u \in users : /\ gate'.token.sub = DecimalOf(u.id)
                                  /\ u.is_active
                                  /\ gate'.current_user = u.id
                                  /\ web'.caller = u.id
        /\ ~TokenNamesUser(gate'.token)
           => /\ web'.status = 401
              /\ ~gate'.executed
              /\ UNCHANGED <<storeVars, workVars, authVars>>]_vars

\* a request whose token names user 9, who does not exist, was answered 401
\* after the project manager had changed their own password with a token
\* naming them
C23_Witness ==
    /\ gate.kind = "get_current_user"
    /\ gate.token = [text |-> "jwt", sub |-> <<"9">>]
    /\ web.status = 401
    /\ ~gate.executed
    /\ \E u \in users : /\ u.id = 3
                        /\ u.is_active
                        /\ u.hashed_password = get_password_hash("longenough")

-----------------------------------------------------------------------------
(* Properties of the update handlers *)

\* the value a field has after a request that gives it as given
Patched(given, none, old) == IF given # none THEN given ELSE old

\* C24: a request answered 200 by update_employee, update_my_profile,
\* update_project, update_task or update_blog leaves in the row it names
\* the request's value in every field the request gives and the old value
\* in every field it leaves None, changes no other row, and leaves
\* employee_code, the user's role, the project's code and the blog's slug,
\* author_id and status as they were; a request answered otherwise changes
\* no row.
C24_PatchSemantics ==
    [][(/\ web'.seq # web.seq
        /\ web'.op \in {"update_employee", "update_my_profile",
                        "update_project", "update_task", "update_blog"}) =>
        LET d == web'.args
            id == web'.target
            ok == web'.status = 200
            profile == web'.op \in {"update_employee", "update_my_profile"}
        IN /\ employees' =
                {IF profile /\ ok /\ e.id = id
                 THEN [id |-> e.id, user_id |-> e.user_id,
                       employee_code |-> e.employee_code,
                       first_name |-> Patched(d.first_name, NoValue,
                                              e.first_name),
                       department |-> e.department]
                 ELSE e : e \in employees}
           /\ users' =
                {IF /\ profile
                    /\ ok
                    /\ \E e \in employees : e.id = id /\ e.user_id = u.id
                 THEN [id |-> u.id, username |-> u.username,
                       hashed_password |-> u.hashed_password,
                       role |-> u.role, is_active |-> u.is_active,
                       email |-> Patched(d.email, NoEmail, u.email)]
                 ELSE u : u \in users}
           /\ projects' =
                {IF web'.op = "update_project" /\ ok /\ p.id = id
                 THEN [id |-> p.id, code |-> p.code,
                       manager_id |-> p.manager_id,
                       name |-> Patched(d.name, NoValue, p.name),
                       status |-> Patched(d.status, NoValue, p.status)]
                 ELSE p : p \in projects}
           /\ tasks' =
                {IF web'.op = "update_task" /\ ok /\ t.id = id
                 THEN [id |-> t.id, project_id |-> t.project_id,
                       created_by_id |-> t.created_by_id,
                       title |-> Patched(d.title, NoValue, t.title),
                       assigned_to_id |-> Patched(d.assigned_to_id, NoId,
                                                  t.assigned_to_id),
                       status |-> Patched(d.status, NoValue, t.status)]
                 ELSE t : t \in tasks}
           /\ blogs' =
                {IF web'.op = "update_blog" /\ ok /\ b.id = id
                 THEN [b EXCEPT
                          !.title = Patched(d.title, NoValue, b.title),
                          !.content = Patched(d.content, NoValue, b.content)]
                 ELSE b : b \in blogs}
           /\ \A b \in blogs : \E c \in blogs' :
                 /\ c.id = b.id
                 /\ c.slug = b.slug
                 /\ c.author_id = b.author_id
                 /\ c.status = b.status]_vars

\* update_project was given a name and no status: the project has the new
\* name and its old status and code
C24_Witness ==
    /\ web.op = "update_project"
    /\ web.status = 200
    /\ web.args = [name |-> "Phase-2", status |-> NoValue]
    /\ \E p \in projects : /\ p.id = web.target
                           /\ p.name = "Phase-2"
                           /\ p.status = "active"
                           /\ p.code = "PRJ001"
    /\ \E t \in tasks : t.title = "Review" /\ t.status = "todo"
    /\ \E b \in blogs : b.title = "News" /\ b.content = "text"
    /\ \E e \in employees : e.first_name = "Zed" /\ e.employee_code = "EMP003"

-----------------------------------------------------------------------------
(* Properties of the roles of accounts *)

AdminRoles == {"super_admin", "admin"}

\* C27: a user with role super_admin or admin that a step adds was added by
\* a create_employee request of a caller whose role is super_admin or
\* admin, and no step changes the role of a user that exists.
C27_AdminsOnlyByAdmins ==
    [][/\ \A u \in users' :
            (u.role \in AdminRoles /\ \A v \in users : v.id # u.id)
            => /\ web'.seq # web.seq
               /\ web'.op = "create_employee"
               /\ web'.role \in AdminRoles
       /\ \A v \in users, u \in users' : u.id = v.id => u.role = v.role]_vars

-----------------------------------------------------------------------------
(* Properties of the task handlers *)

\* C28: update_task and update_task_status called by an EMPLOYEE on a task
\* that is assigned to another user or to nobody are answered 403 and leave
\* the tasks table unchanged.
C28_EmployeeOnlyOwnTask ==
    [][(/\ web'.seq # web.seq
        /\ web'.op \in {"update_task", "update_task_status"}
        /\ web'.role = "employee"
        /\ \E t \in tasks : /\ t.id = web'.target
                            /\ t.assigned_to_id # web'.caller)
        => (web'.status = 403 /\ tasks' = tasks)]_vars

-----------------------------------------------------------------------------
(* Properties of publishing *)

\* C29: a blog that is published after a step has published_at set, and
\* either was published before the step or the step is an
\* update_blog_status request for it by a super admin or admin; create_blog
\* stores the blog as a draft, update_blog changes no blog's status, and
\* update_blog_status asked for "published" by any other role is answered
\* 403 and changes no blog.
C29_PublishedOnlyByAdmins ==
    [][/\ \A c \in blogs' :
            c.status = "published"
            => /\ c.published_at # <<>>
               /\ \/ \E b \in blogs : b.id = c.id /\ b.status = "published"
                  \/ /\ web'.seq # web.seq
                     /\ web'.op = "update_blog_status"
                     /\ web'.target = c.id
                     /\ web'.role \in {"super_admin", "admin"}
       /\ (web'.seq # web.seq /\ web'.op = "create_blog")
          => \A c \in blogs' \ blogs :
                c.status = "draft" /\ c.published_at = <<>>
       /\ (web'.seq # web.seq /\ web'.op = "update_blog")
          => \A b \in blogs : \E c \in blogs' :
                /\ c.id = b.id
                /\ c.status = b.status
                /\ c.published_at = b.published_at
       /\ (/\ web'.seq # web.seq
           /\ web'.op = "update_blog_status"
           /\ web'.args.status = "published"
           /\ web'.role \notin {"super_admin", "admin"})
          => (web'.status \in {403, 404} /\ blogs' = blogs)]_vars

\* the content editor's blog, published by the admin at minute 5 and back in
\* review since: the editor asked for "published" and was refused
C29_Witness ==
    /\ web.op = "update_blog_status"
    /\ web.role = "content_editor"
    /\ web.args.status = "published"
    /\ web.status = 403
    /\ \E b \in blogs : /\ b.id = web.target
                        /\ b.author_id = web.caller
                        /\ b.status = "review"
                        /\ b.published_at = <<5>>

-----------------------------------------------------------------------------
(* Properties of the settings handlers *)

\* C30: update_setting changes the value of a setting only when the
\* caller's role has the permission manage_settings by has_permission.
C30_SettingsFollowPermissionTable ==
    [][(/\ web'.seq # web.seq
        /\ web'.op = "update_setting"
        /\ system_settings' # system_settings)
        => has_permission(web'.role, "manage_settings")]_vars

====
